------------------------------ MODULE MCUploads ------------------------------
(* Small instances of Uploads for TLC. *)
EXTENDS Uploads, Pipelines, TLC

CONSTANTS c1, c2, s1, a, b, dA, dB, dC, h

\* Two names for one content, so that one file serves two datasets; two
\* contents for one name; no name.  A client that repeats its own key.
SomeIds == a :> dA @@ b :> dB @@ c2 :> dC @@ s1 :> dB
SomeUploads ==
    {[content |-> c1, name |-> a, header |-> NoName],
     [content |-> c2, name |-> a, header |-> NoName],
     [content |-> c2, name |-> a, header |-> h],
     [content |-> c1, name |-> b, header |-> h]}
OneSample == {[content |-> s1, name |-> NoName, header |-> NoName]}
SomeKeys == {h} \cup ((DOMAIN SomeIds) \X {c1, c2, s1, NoName})

SomeRequests == {<<Key(u), SomeIds[NameOf(u)]>> : u \in SomeUploads \cup OneSample}

\* The pipeline with the stages between the reads and the promotion merged.
Everywhere(next) == [p \in Positions |-> IF p \in DOMAIN next THEN next[p] ELSE {}]
ReadingOrder ==
    [ingest |-> Everywhere([enter |-> {"sniffing"}, sniffing |-> {"loading"}, loading |-> {"promoting"}]),
     query  |-> Everywhere([enter |-> {"binding"}, binding |-> {"executing"}])]

OneError == [ingest |-> {"ingest_failed"}, query |-> {"query_failed"}]
=============================================================================
