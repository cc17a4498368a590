----------------------------- MODULE IngestionInv -----------------------------
(***************************************************************************)
(* The inductive invariant behind Ingestion's properties: what each step   *)
(* has found out about the file.                                           *)
(***************************************************************************)
EXTENDS Ingestion

Loaded == stage \in {"profiling", "resolving_dates", "inferring", "verifying", "built"}
Resolved == stage \in {"inferring", "verifying", "built"}

\* Dates are read in an order that reads them all, or not yet; and their order
\* was resolved from some of them.
DatesRead ==
    /\ Loaded => reading \in Readings
    /\ Resolved => \E sampled \in SUBSET file.dates : order = ResolveDateOrder(sampled)

\* The model is what the claims and the evidence make of the file.
ModelBuilt ==
    stage = "built" =>
        model = [sem |-> Built(Claims, Evidence), caveat |-> Caveat(Built(Claims, Evidence)),
                 read |-> EventTimeTemporal]

\* The rows are loaded under the encoding that was detected, or in its place.
Encoded ==
    /\ stage = "loading" => encoding = DetectEncoding(Sample(file.bytes))
    /\ Loaded /\ Utf8(file.bytes) /\ Utf8(Sample(file.bytes)) => encoding = "utf-8"

\* A file that can be read is refused for want of a delimiter or of data, or
\* because of what the language model took for a quantity.
Refusals ==
    /\ stage \in {"verifying", "built"} => proposer \in {"llm", "heuristic"}
    /\ stage = "failed" /\ Valid(file.bytes) =>
          why \in {"delimiter", "no_data"} \/ (why = "build" /\ proposer = "llm")

IngestionInvariant ==
    /\ file \in Files
    /\ DatesRead /\ ModelBuilt /\ Encoded /\ Refusals
=============================================================================
