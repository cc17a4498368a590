---------------------------- MODULE Conversation ----------------------------
(***************************************************************************)
(* A conversation: a question about a dataset, and follow-ups that change  *)
(* the plan of an earlier turn.                                            *)
(*                                                                         *)
(* A follow-up names the job of an earlier turn whose plan it starts from: *)
(* any job that has a result, be it about another dataset or about a model *)
(* replaced since.  Everything a turn uses, its dataset's model and the    *)
(* earlier plan, is captured when it is submitted, so a turn is two steps: *)
(* Ask captures, Finish interprets, binds and executes.  Questions that    *)
(* start from nothing do not touch one another, so a conversation starts   *)
(* with one such question.                                                 *)
(***************************************************************************)
EXTENDS Executor

CONSTANTS
    Datasets,
    Corpus,    \* sequence of [claims, evidence]: the files datasets are made of
    Files,     \* dataset -> the positions in Corpus it may be at
    Plans,     \* the plans the interpreter returns for a first question
    Partials,  \* the partial plans it returns for a follow-up: records with some fields
    MaxTurns   \* bound: the turns of the conversation

NoTurn == 0

ASSUME ConversationAssumption ==
    /\ MaxTurns \in Nat
    /\ \A d \in Datasets : Files[d] \subseteq DOMAIN Corpus
    /\ \A c \in DOMAIN Corpus :
          /\ WellFormed(Corpus[c].claims, Corpus[c].evidence)
          /\ Buildable(Corpus[c].claims, Corpus[c].evidence)
    /\ \A ir \in Plans : DOMAIN ir = PlanFields

VARIABLES
    file,  \* dataset -> the position in Corpus of its file
    turns  \* the turns, by submission

vars == <<file, turns>>

\* The models of the corpus.
Models == [c \in DOMAIN Corpus |-> Built(Corpus[c].claims, Corpus[c].evidence)]

Verdicts == {"answer", "clarify", "refuse"}
Outcomes == {"running", "failed"} \cup Verdicts

\* The model a turn captured.
ModelOf(t) == Models[turns[t].file]

-----------------------------------------------------------------------------
(* merge_ir *)

Mergeable == {"measures", "group_by", "categorical_filters", "numeric_filters", "time",
              "top_k", "period_comparison", "share_of_total", "distinct_count_of",
              "frequency", "basket"}
Diagnostic == {"unmet_concepts", "unmet_dimensions"}

Overrides(partial) == DOMAIN partial \cap Mergeable

\* Mutant of Merge: the gaps of the earlier turn are inherited.
MergeWithGaps(previous, partial) ==
    [f \in DOMAIN previous |->
        CASE f \in Overrides(partial) -> partial[f]
          [] f \in Diagnostic -> previous[f] \/ (f \in DOMAIN partial /\ partial[f])
          [] f = "notes" /\ Overrides(partial) = {} -> previous[f] \cup {"clarification"}
          [] OTHER -> previous[f]]

\* The earlier plan with the partial plan laid over it.
Merge(previous, partial) ==
    [f \in DOMAIN previous |->
        CASE f \in Overrides(partial) -> partial[f]
          [] f \in Diagnostic -> f \in DOMAIN partial /\ partial[f]
          [] f = "notes" /\ Overrides(partial) = {} -> previous[f] \cup {"clarification"}
          [] OTHER -> previous[f]]

-----------------------------------------------------------------------------
Init ==
    /\ file \in {g \in [Datasets -> DOMAIN Corpus] : \A d \in Datasets : g[d] \in Files[d]}
    /\ turns = <<>>

\* A turn about dataset d.  Its plan is the one the interpreter will return.
Submit(d, previous, changes, gaps, ir) ==
    /\ Len(turns) < MaxTurns
    /\ turns' = Append(turns, [file |-> file[d], previous |-> previous, changes |-> changes,
                               gaps |-> gaps, ir |-> ir, outcome |-> "running", why |-> "none",
                               says |-> {}, lines |-> {}])
    /\ UNCHANGED file

Ask(d, ir) ==
    /\ turns = <<>>
    /\ Submit(d, NoTurn, {}, {f \in Diagnostic : ir[f]}, ir)

\* Mutant of FollowUp: any earlier job will do.
FollowUpAnyJob(d, p, partial) ==
    /\ p \in DOMAIN turns
    /\ Submit(d, p, Overrides(partial), {f \in Diagnostic \cap DOMAIN partial : partial[f]},
              Merge(turns[p].ir, partial))

\* query_dataset refuses a previous job without a result with 409.
FollowUp(d, p, partial) ==
    /\ p \in DOMAIN turns
    /\ turns[p].outcome \in Verdicts
    /\ Submit(d, p, Overrides(partial), {f \in Diagnostic \cap DOMAIN partial : partial[f]},
              Merge(turns[p].ir, partial))

End(t, outcome, why, says, lines) ==
    /\ turns' = [turns EXCEPT ![t].outcome = outcome, ![t].why = why, ![t].says = says, ![t].lines = lines]
    /\ UNCHANGED file

\* The binder refuses or asks.
Decline(t) ==
    LET v == Verdict(ModelOf(t), turns[t].ir) IN
    /\ v.raised
    /\ End(t, v.kind, v.why, {}, {})

\* The binder admits the plan.
Admitted(t) == ~Verdict(ModelOf(t), turns[t].ir).raised
Bound(t) == Normalised(ModelOf(t), turns[t].ir)

\* Text may look like numbers, and flags be numbers, in the rows that count.
\* The data have other lines, with revenue, outside some of the partitions.
Answer(t) ==
    /\ Admitted(t)
    /\ Faults(ModelOf(t), Bound(t)) \subseteq DependOnData
    /\ \E lines \in SUBSET Cols(Unrestricted(ModelOf(t), Bound(t))) :
          End(t, "answer", "none", Disclosures(ModelOf(t), Bound(t), lines), lines)

\* The data do not hold the periods a comparison needs.
AskForPeriods(t) ==
    /\ Admitted(t)
    /\ Path(Bound(t)) = "comparison"
    /\ End(t, "clarify", "periods", {}, {})

\* Executing the plan raises.
ExecutionFails(t) ==
    /\ Admitted(t)
    /\ \E fault \in Faults(ModelOf(t), Bound(t)) : End(t, "failed", fault, {}, {})

\* The provider raises, or returns no valid plan.
InterpretationFails(t) == End(t, "failed", "interpretation", {}, {})

Finish(t) ==
    /\ turns[t].outcome = "running"
    /\ Decline(t) \/ Answer(t) \/ AskForPeriods(t) \/ ExecutionFails(t) \/ InterpretationFails(t)

Next ==
    \/ \E d \in Datasets, ir \in Plans : Ask(d, ir)
    \/ \E d \in Datasets, p \in 1..MaxTurns, partial \in Partials : FollowUp(d, p, partial)
    \/ \E t \in DOMAIN turns : Finish(t)

Spec == Init /\ [][Next]_vars

-----------------------------------------------------------------------------
(* Properties. *)

Answered == {t \in DOMAIN turns : turns[t].outcome = "answer"}

ConversationTypeOK ==
    /\ \A d \in Datasets : file[d] \in Files[d]
    /\ Len(turns) <= MaxTurns
    /\ \A t \in DOMAIN turns :
          /\ turns[t].file \in DOMAIN Corpus
          /\ turns[t].previous \in {NoTurn} \cup {p \in 1..(t - 1) : turns[p].outcome \in Verdicts}
          /\ turns[t].changes \subseteq Mergeable
          /\ turns[t].gaps \subseteq Diagnostic
          /\ turns[t].outcome \in Outcomes

\* Whatever the conversation made of the plan, and whichever dataset it was
\* first made for, an answer is computed from columns that this dataset's
\* model binds and that no test refuted; only a generic aggregation may read
\* another column.
SoundReads ==
    \A t \in Answered : Reads(ModelOf(t), Bound(t)) \subseteq BoundColumns(ModelOf(t))

\* A gap the interpreter found in a question stops that turn and no other: a
\* question with an unmet concept or dimension is never answered, and a turn is
\* declined for a gap only when its own question has one.  A follow-up that
\* changes nothing of the plan it starts from is never answered either; "a
\* follow-up that changed nothing" (bind.py:364) is not all that is told so,
\* for the note that says it is inherited (merge.py:46), against merge.py:17.
GapsAreOfThisTurn ==
    \A t \in DOMAIN turns :
        /\ turns[t].outcome = "answer" => turns[t].gaps = {}
        /\ turns[t].why \in Diagnostic => turns[t].why \in turns[t].gaps
        /\ turns[t].previous # NoTurn /\ turns[t].changes = {} => turns[t].outcome # "answer"

\* An answered revenue comes from an amount that passed the identity test or
\* from quantity times rate; when it comes from an amount nothing checked, the
\* answer says "as reported", and it never says so of a checked one.
RevenueProvenance ==
    \A t \in Answered :
        LET m == ModelOf(t)
            unchecked == \E b \in Amounts(m.bindings) :
                            ~b.verified /\ m.reads["net_revenue"] = {b.column}
        IN turns[t].ir.measures \cap RevenueMeasures # {} =>
               (<<"as_reported", None>> \in turns[t].says <=> unchecked)

\* A ranking of products by a key or by any column that depends on the key is
\* restricted to the product lines of every partition where one value selects
\* them, and says so of each, on every path but the basket's.  Any other revenue
\* of a standard query says what lies outside the first such partition exactly
\* when something does; of the further ones it says nothing, though the code has
\* it that an answer "states exactly what non-product money it contains"
\* (execute.py:603).
ProductScopeStated ==
    \A t \in Answered :
        LET m == ModelOf(t)
            ev == Corpus[turns[t].file].evidence
            says == turns[t].says
            products == {b.column : b \in {b \in Sound(m) : b.role = "entity_key" /\ b.entity = "product"}}
            labels == {b.column : b \in {b \in Sound(m) : b.role = "description"
                                             /\ \E p \in products : <<p, b.column>> \in ev.fds}}
            ranksProducts == turns[t].ir.group_by \cap (products \cup labels) # {}
            single == {p \in m.partitions : p.single}
        IN \A p \in single :
               /\ ranksProducts /\ Path(Bound(t)) # "basket" =>
                     p.column \in Reads(m, Bound(t)) /\ <<"partition", p.column>> \in says
               /\ /\ ~ranksProducts /\ <<"partition", p.column>> \notin says
                  /\ Path(Bound(t)) = "standard"
                  /\ BoundMeasures(Bound(t)) \cap RevenueMeasures # {}
                  => ( <<"other_lines", p.column>> \in says <=>
                         p.column \in turns[t].lines /\ \A q \in single : p.rank <= q.rank )

\* Where the executor fails on what the binder admits, the plan and the model
\* have a reason: no name of a column is wrong, only a ranking by share cannot be
\* ordered, only a count of distinct values is compared without a measure, and
\* only an amount that no test looked at, and that the plan reports as such,
\* cannot be summed.
FailuresAreExplained ==
    \A t \in DOMAIN turns :
        LET m == ModelOf(t)
            why == turns[t].why
        IN turns[t].outcome = "failed" =>
               /\ why # "unknown_column"
               /\ why = "rank" => turns[t].ir.top_k = "share"
               /\ why = "no_measure" => turns[t].ir.distinct_count_of # None
               /\ why = "no_sum" => AsReported(m, Bound(t))
=============================================================================
