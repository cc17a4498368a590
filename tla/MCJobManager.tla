---------------------------- MODULE MCJobManager ----------------------------
(* Small instances of JobManager for TLC. *)
EXTENDS JobManagerInv, Pipelines

CONSTANTS k1, k2, k3, d1

\* Two keys under which one dataset is uploaded.
OneDatasetRequests == {<<k1, d1>>, <<k2, d1>>}

\* Three keys: a third upload may arrive while one holds the lock and another
\* is queued for it.
ThreeUploads == {<<k1, d1>>, <<k2, d1>>, <<k3, d1>>}

\* The pipelines with their middle stages merged, for instances of more jobs.
\* The job layer treats all stages alike, except the first and the last.
ShortOrder ==
    [ingest |-> [enter |-> {"sniffing"}, sniffing |-> {"promoting"}, promoting |-> {}],
     query  |-> [enter |-> {"binding"}, binding |-> {"executing"}, executing |-> {}]]

\* All failures look alike.
OneError == [ingest |-> {"ingest_failed"}, query |-> {"query_failed"}]
=============================================================================
