------------------------------ MODULE PeriodsInv ------------------------------
(***************************************************************************)
(* The inductive invariant behind Periods' properties: what each step has  *)
(* left for the answer to rest on.                                         *)
(***************************************************************************)
EXTENDS Periods

\* The question and its table are a case's.
Asked == \E c \in Cases : table = c.table /\ question = c.question

\* From its resolution on a comparison is of the periods that were resolved.
Chosen == stage \in {"executing", "disclosing", "answered"} /\ Comparing => Resolvable /\ periods = Resolved

\* Of the groups compared, none that is left out is ahead of one that ships.
Shipped ==
    stage \in {"disclosing", "answered"} /\ Comparing =>
        /\ shipped \subseteq Groups
        /\ \A g \in Groups \ shipped, h \in shipped : ~Ahead(g, h)

\* What an answer says is so of the rows it is about.
Said ==
    stage = "answered" =>
        /\ Comparing => /\ says.negative = Negative
                        /\ says.small \subseteq {g \in Groups : InBoth(g) /\ Base(g) > 0}
        /\ says.whole <=> ClaimsWhole

PeriodsInvariant ==
    /\ stage \in {"resolving", "executing", "disclosing", "answered", "clarify"}
    /\ flagged \in BOOLEAN
    /\ Asked /\ Chosen /\ Shipped /\ Said
=============================================================================
