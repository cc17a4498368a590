------------------------ MODULE DatasetPersistenceInv ------------------------
(***************************************************************************)
(* The inductive invariant behind DatasetPersistence's safety properties:  *)
(* what the files, the store and the ingest of a dataset have to do with   *)
(* one another at any moment, be it between two crashes.                   *)
(***************************************************************************)
EXTENDS DatasetPersistence

\* An ingest runs while the process serves.  It has a build of its own, newer
\* than anything the dataset had when it started; until the promotion this
\* build is the staging file, and after it the canonical one.
IngestOK(d) ==
    /\ ingest[d] # "idle" =>
          mode = "serving" /\ building[d] \in Data /\ building[d].build <= builds
    /\ ingest[d] = "building" => staging[d] = Partial
    /\ ingest[d] = "built" => staging[d] = building[d]
    /\ ingest[d] \in {"building", "built"} =>
          sidecar[d].of.build <= building[d].build /\ store[d].of.build <= building[d].build
    /\ ingest[d] \in {"promoted", "returned"} => canonical[d] = building[d]
    /\ ingest[d] = "returned" /\ ~unsaved[d] => sidecar[d] = Ready(building[d])

\* A staging file belongs to an ingest or was left by a crash; the canonical
\* file is whole; and no file or record is of a build that was not started.
FilesOK(d) ==
    /\ staging[d] # Nothing => ingest[d] \in {"building", "built"} \/ crashes > 0
    /\ canonical[d] # Partial
    /\ canonical[d] # Nothing =>
          sidecar[d].of.build <= canonical[d].build /\ store[d].of.build <= canonical[d].build
    /\ sidecar[d].of.build <= builds /\ store[d].of.build <= builds

\* What is registered has data, fits it unless a promotion has just replaced
\* it, and is what the sidecar holds unless its last write failed.
StoreOK(d) ==
    store[d] # NoRecord =>
        /\ mode # "down" /\ canonical[d] # Nothing
        /\ ingest[d] \notin {"promoted", "returned"} => Identical(store[d], canonical[d])
        /\ ingest[d] # "returned" /\ ~unsaved[d] =>
              sidecar[d].of = store[d].of /\ sidecar[d].version <= store[d].version

\* A query runs while the process serves, on a dataset that has data.
QueryOK(q) ==
    query[q] # NoQuery =>
        /\ mode = "serving" /\ canonical[query[q].dataset] # Nothing
        /\ query[q].at = "opened" => query[q].data \notin {Nothing, Partial}

DatasetOK(d) == IngestOK(d) /\ FilesOK(d) /\ StoreOK(d)

PersistenceInv == (\A d \in Datasets : DatasetOK(d)) /\ (\A q \in Queries : QueryOK(q))
=============================================================================
