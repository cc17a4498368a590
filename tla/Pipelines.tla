------------------------------ MODULE Pipelines ------------------------------
(***************************************************************************)
(* The two pipelines a job runs in its worker thread, seen from the job    *)
(* layer: the stage boundaries at which they call emit, in order, and the  *)
(* points from which they can return.  Between two boundaries a pipeline   *)
(* touches no state of the job layer, so a stage name stands for all the   *)
(* work that follows it.  These are the values JobManager's constants have *)
(* in this program.                                                        *)
(***************************************************************************)

\* The stages run_ingest announces.  build_semantic_model announces
\* "inferring" a second time when the provider has no recorded response and
\* the heuristic proposer takes over; that second announcement is
\* "inferring_again" here.  "enter" is the position before the first emit.
IngestNext ==
    [enter           |-> {"sniffing"},
     sniffing        |-> {"loading"},
     loading         |-> {"profiling"},
     profiling       |-> {"resolving_dates"},
     resolving_dates |-> {"inferring"},
     inferring       |-> {"inferring_again", "verifying"},
     inferring_again |-> {"verifying"},
     verifying       |-> {"discovering"},
     discovering     |-> {"promoting"},
     promoting       |-> {}]

\* The stages run_query announces.
QueryNext ==
    [enter        |-> {"interpreting"},
     interpreting |-> {"binding"},
     binding      |-> {"executing"},
     executing    |-> {}]

StageOrder == [ingest |-> IngestNext, query |-> QueryNext]

StageNames == (DOMAIN IngestNext \cup DOMAIN QueryNext) \ {"enter"}

\* The positions from which a pipeline returns a result.  A query whose
\* verdict is REFUSE or CLARIFY returns from "binding", before "executing".
ReturnPoints == [ingest |-> {"promoting"}, query |-> {"binding", "executing"}]

\* The codes of the shaped errors each pipeline can raise.  The last one is
\* _run's own, for an exception raised outside the pipeline's try block.
PipelineErrors ==
    [ingest |-> {"ingest_failed", "needs_llm", "internal_error"},
     query  |-> {"query_failed", "needs_llm", "internal_error"}]
=============================================================================
