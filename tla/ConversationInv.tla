--------------------------- MODULE ConversationInv ---------------------------
(***************************************************************************)
(* The inductive invariant of a conversation: what each turn carries, what *)
(* its end says of its plan, and what its plan says of a follow-up.        *)
(***************************************************************************)
EXTENDS Conversation

TurnFields == {"file", "previous", "changes", "gaps", "ir", "outcome", "why", "says", "lines"}

\* What a turn carries while it runs.
Carried(r) ==
    /\ DOMAIN r = TurnFields
    /\ r.file \in DOMAIN Corpus
    /\ r.changes \subseteq Mergeable
    /\ DOMAIN r.ir = PlanFields
    /\ r.gaps = {f \in Diagnostic : r.ir[f]}
    /\ r.outcome \in Outcomes

\* How a turn ended says what the binder and the executor found.
Justified(r) ==
    LET m == Models[r.file]
        v == Verdict(m, r.ir)
        bound == Normalised(m, r.ir)
    IN /\ r.outcome \in {"running", "answer"} => r.why = "none"
       /\ r.outcome = "answer" => ~v.raised /\ r.says = Disclosures(m, bound, r.lines)
                                       /\ r.lines \subseteq Cols(Unrestricted(m, bound))
       /\ r.outcome = "failed" =>
             r.why = "interpretation" \/ (~v.raised /\ r.why \in Faults(m, bound))
       /\ r.outcome \in {"clarify", "refuse"} =>
             r.why = "periods" \/ (v.raised /\ r.why = v.why)

\* A plan starts from an earlier turn that has a result, and the plan of a
\* follow-up that changes nothing asks for a clarification.
Linked(t) ==
    /\ turns[t].previous \in {NoTurn} \cup {p \in 1..(t - 1) : turns[p].outcome \in Verdicts}
    /\ turns[t].previous # NoTurn /\ turns[t].changes = {} => "clarification" \in turns[t].ir.notes

TurnsInv ==
    /\ \A d \in Datasets : file[d] \in Files[d]
    /\ turns \in Seq({turns[t] : t \in DOMAIN turns})
    /\ Len(turns) <= MaxTurns
    /\ \A t \in DOMAIN turns : Carried(turns[t]) /\ Justified(turns[t]) /\ Linked(t)
=============================================================================
