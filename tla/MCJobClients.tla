---------------------------- MODULE MCJobClients ----------------------------
(* Small instances of JobClients for TLC. *)
EXTENDS JobClients, Pipelines

CONSTANTS k1, d1

OneRequest == {<<k1, d1>>}

\* The pipelines with their middle stages merged, and failures all alike.
ShortOrder ==
    [ingest |-> [enter |-> {"sniffing"}, sniffing |-> {"promoting"}, promoting |-> {}],
     query  |-> [enter |-> {"binding"}, binding |-> {"executing"}, executing |-> {}]]

OneError == [ingest |-> {"ingest_failed"}, query |-> {"query_failed"}]
=============================================================================
