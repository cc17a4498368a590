----------------------- MODULE DatasetPersistenceProofs -----------------------
(***************************************************************************)
(* Proofs about DatasetPersistence, for any datasets, contents and numbers *)
(* of builds and crashes.  PersistenceInv is inductive relative to TypeOK, *)
(* and TypeOK relative to it: the two are proved together.                 *)
(***************************************************************************)
EXTENDS DatasetPersistenceInv, TLAPS

-----------------------------------------------------------------------------
(* Records and data. *)

\* Nothing and Partial are no data, and only Nothing and Partial have build 0.
LEMMA DataFacts ==
    ASSUME NEW data \in Data
    PROVE  data # Nothing /\ data # Partial /\ data.build \in Nat \ {0} /\ data.content \in Contents
  BY ContentAssumption DEF Data, Nothing, Partial

LEMMA NothingFacts ==
    /\ Nothing # Partial /\ Nothing.build = 0 /\ Partial.build = 0
    /\ NoRecord.of = Nothing /\ NoRecord.version = 0 /\ NoRecord.of.build = 0
  BY DEF Nothing, Partial, NoRecord

LEMMA RecordFacts ==
    ASSUME NEW record \in Records
    PROVE  /\ record # NoRecord /\ record.of \in Data /\ record.of.build \in Nat \ {0}
           /\ record.version \in Versions
  BY DataFacts, NothingFacts DEF Records

\* What a finished build persists and registers is a record, and the data it
\* was made from pass the identity check.
LEMMA ReadyFacts ==
    ASSUME NEW data \in Data
    PROVE  /\ Ready(data) \in Records /\ Ready(data) # NoRecord /\ Ready(data).of = data
           /\ Ready(data).version = CURRENT_MODEL_VERSION
           /\ Identical(Ready(data), data)
<1>1. /\ Ready(data) \in Records /\ Ready(data).of = data
      /\ Ready(data).version = CURRENT_MODEL_VERSION
  BY DEF Ready, Records, CURRENT_MODEL_VERSION, Versions
<1>2. data # Nothing /\ data.content \in Contents
  BY DataFacts
<1>3. QED
  BY <1>1, <1>2, RecordFacts, ContentAssumption DEF Identical

\* A migration keeps the build a record is of, and never lowers its version.
LEMMA MigratedFacts ==
    ASSUME NEW record \in Records, NEW outcome, NEW data, Acceptable(record, data)
    PROVE  /\ Migrated(record, outcome) \in Records
           /\ Migrated(record, outcome).of = record.of
           /\ record.version <= Migrated(record, outcome).version
<1>1. record.version \in {1, 2, 3} /\ CURRENT_MODEL_VERSION = 3
  BY DEF Acceptable, MIGRATABLE_VERSIONS, CURRENT_MODEL_VERSION
<1>2. CASE record.version = CURRENT_MODEL_VERSION \/ outcome = "unopened"
  BY <1>1, <1>2 DEF Migrated
<1>3. CASE ~(record.version = CURRENT_MODEL_VERSION \/ outcome = "unopened")
  <2> DEFINE new == [record EXCEPT !.version = CURRENT_MODEL_VERSION,
                                   !.derived = outcome = "rederived"]
  <2>1. Migrated(record, outcome) = new
    BY <1>3 DEF Migrated
  <2>2. (outcome = "rederived") \in BOOLEAN /\ CURRENT_MODEL_VERSION \in Versions
    BY <1>1 DEF Versions
  <2>3. new \in Records
    BY <2>2 DEF Records
  <2>4. new.of = record.of /\ new.version = CURRENT_MODEL_VERSION
    BY DEF Records
  <2>5. QED
    BY <1>1, <2>1, <2>3, <2>4
<1>4. QED
  BY <1>2, <1>3

\* The types of what a dataset has.
LEMMA DatasetTypes ==
    ASSUME TypeOK, NEW d \in Datasets
    PROVE  /\ staging[d] \in Data \cup {Nothing, Partial}
           /\ canonical[d] \in Data \cup {Nothing, Partial}
           /\ canonical[d].build \in Nat
           /\ sidecar[d] \in Records \cup {NoRecord} /\ sidecar[d].of.build \in Nat
           /\ store[d] \in Records \cup {NoRecord} /\ store[d].of.build \in Nat
           /\ sidecar[d].version \in Nat /\ store[d].version \in Nat
           /\ building[d] \in Data \cup {Nothing} /\ building[d].build \in Nat
           /\ builds \in Nat /\ crashes \in Nat
<1>1. /\ staging[d] \in Data \cup {Nothing, Partial}
      /\ canonical[d] \in Data \cup {Nothing, Partial}
      /\ sidecar[d] \in Records \cup {NoRecord} /\ store[d] \in Records \cup {NoRecord}
      /\ building[d] \in Data \cup {Nothing} /\ builds \in Nat /\ crashes \in Nat
  BY ContentAssumption DEF TypeOK
<1>2. canonical[d].build \in Nat /\ building[d].build \in Nat
  BY <1>1, DataFacts, NothingFacts
<1>3. ASSUME NEW r \in Records \cup {NoRecord}
      PROVE  r.of.build \in Nat /\ r.version \in Nat
  <2>1. CASE r \in Records
    BY <2>1, RecordFacts DEF Versions
  <2>2. CASE r = NoRecord
    BY <2>2, NothingFacts
  <2>3. QED
    BY <2>1, <2>2
<1>4. QED
  BY <1>1, <1>2, <1>3

-----------------------------------------------------------------------------
(* What a step leaves alone. *)

\* A dataset that a step does not touch stays as it should be.
LEMMA Untouched ==
    ASSUME TypeOK, NEW e \in Datasets, DatasetOK(e),
           staging'[e] = staging[e], canonical'[e] = canonical[e], sidecar'[e] = sidecar[e],
           unsaved'[e] = unsaved[e], store'[e] = store[e], ingest'[e] = ingest[e],
           building'[e] = building[e], mode' = mode \/ (mode = "starting" /\ mode' = "serving"),
           builds' \in Nat, builds <= builds', crashes' \in Nat, crashes <= crashes'
    PROVE  DatasetOK(e)'
<1>1. /\ canonical[e].build \in Nat /\ sidecar[e].of.build \in Nat /\ store[e].of.build \in Nat
      /\ building[e].build \in Nat /\ builds \in Nat /\ crashes \in Nat
  BY DatasetTypes
<1>2. IngestOK(e)'
  BY <1>1 DEF DatasetOK, IngestOK
<1>3. FilesOK(e)'
  BY <1>1 DEF DatasetOK, FilesOK
<1>4. StoreOK(e)'
  BY DEF DatasetOK, StoreOK, Identical
<1>5. QED
  BY <1>2, <1>3, <1>4 DEF DatasetOK

\* Queries stay as they should be when no file leaves the canonical path.
LEMMA QueriesKept ==
    ASSUME TypeOK, PersistenceInv, query' = query, mode' = mode,
           \A e \in Datasets : canonical[e] # Nothing => canonical'[e] # Nothing
    PROVE  \A q \in Queries : QueryOK(q)'
<1> SUFFICES ASSUME NEW q \in Queries, query[q] # NoQuery
             PROVE  QueryOK(q)'
  BY DEF QueryOK
<1>1. query[q].dataset \in Datasets
  BY DEF TypeOK
<1>2. QED
  BY <1>1 DEF PersistenceInv, QueryOK

-----------------------------------------------------------------------------
(* The steps of an ingest. *)

LEMMA StartIngestKept ==
    ASSUME TypeOK, PersistenceInv, NEW d \in Datasets, NEW c \in Contents, StartIngest(d, c)
    PROVE  TypeOK' /\ PersistenceInv'
<1> DEFINE new == [build |-> builds + 1, content |-> c]
<1>1. /\ new \in Data /\ new # Nothing /\ new.build = builds + 1
      /\ builds \in Nat /\ builds' = builds + 1 /\ builds' \in 1..(MaxBuilds + 1)
  BY ContentAssumption DEF StartIngest, TypeOK, Data, Nothing
<1>2. /\ building' = [building EXCEPT ![d] = new] /\ ingest' = [ingest EXCEPT ![d] = "building"]
      /\ staging' = [staging EXCEPT ![d] = Partial]
      /\ UNCHANGED <<canonical, sidecar, unsaved, store, query, mode, unloaded, crashes>>
      /\ mode = "serving" /\ ingest[d] = "idle"
  BY DEF StartIngest
<1>3. TypeOK'
  BY <1>1, <1>2 DEF TypeOK
<1>4. ASSUME NEW e \in Datasets, e # d  PROVE  DatasetOK(e)'
  <2>1. DatasetOK(e) /\ crashes \in Nat
    BY DatasetTypes DEF PersistenceInv
  <2>2. QED
    BY <1>1, <1>2, <1>4, <2>1, Untouched DEF TypeOK
<1>5. DatasetOK(d)'
  <2>1. /\ ingest'[d] = "building" /\ staging'[d] = Partial /\ building'[d] = new
        /\ DatasetOK(d)
    BY <1>2 DEF TypeOK, PersistenceInv
  <2>2. sidecar[d].of.build \in Nat /\ store[d].of.build \in Nat
    BY DatasetTypes
  <2>3. sidecar[d].of.build <= builds + 1 /\ store[d].of.build <= builds + 1
    BY <1>1, <2>1, <2>2 DEF DatasetOK, FilesOK
  <2>4. IngestOK(d)'
    BY <1>1, <1>2, <2>1, <2>3 DEF IngestOK
  <2>5. FilesOK(d)'
    BY <1>1, <1>2, <2>1, <2>3 DEF DatasetOK, FilesOK
  <2>6. StoreOK(d)'
    BY <1>2, <2>1 DEF DatasetOK, StoreOK, Identical
  <2>7. QED
    BY <2>4, <2>5, <2>6 DEF DatasetOK
<1>6. \A q \in Queries : QueryOK(q)'
  BY <1>2, QueriesKept
<1>7. QED
  BY <1>3, <1>4, <1>5, <1>6 DEF PersistenceInv

LEMMA BuildKept ==
    ASSUME TypeOK, PersistenceInv, NEW d \in Datasets, Build(d)
    PROVE  TypeOK' /\ PersistenceInv'
<1>1. /\ staging' = [staging EXCEPT ![d] = building[d]] /\ ingest' = [ingest EXCEPT ![d] = "built"]
      /\ UNCHANGED <<canonical, sidecar, unsaved, store, building, query, mode, unloaded,
                     builds, crashes>>
      /\ ingest[d] = "building"
  BY DEF Build
<1>2. DatasetOK(d) /\ building[d] \in Data
  BY <1>1 DEF PersistenceInv, DatasetOK, IngestOK
<1>3. TypeOK'
  BY <1>1, <1>2 DEF TypeOK
<1>4. ASSUME NEW e \in Datasets, e # d  PROVE  DatasetOK(e)'
  <2>1. DatasetOK(e) /\ crashes \in Nat /\ builds \in Nat
    BY DatasetTypes DEF PersistenceInv
  <2>2. QED
    BY <1>1, <1>4, <2>1, Untouched DEF TypeOK
<1>5. DatasetOK(d)'
  <2>1. ingest'[d] = "built" /\ staging'[d] = building[d]
    BY <1>1 DEF TypeOK
  <2>2. IngestOK(d)'
    BY <1>1, <1>2, <2>1 DEF DatasetOK, IngestOK
  <2>3. FilesOK(d)'
    BY <1>1, <1>2, <2>1 DEF DatasetOK, FilesOK
  <2>4. StoreOK(d)'
    BY <1>1, <1>2, <2>1 DEF DatasetOK, StoreOK, Identical
  <2>5. QED
    BY <2>2, <2>3, <2>4 DEF DatasetOK
<1>6. \A q \in Queries : QueryOK(q)'
  BY <1>1, QueriesKept
<1>7. QED
  BY <1>3, <1>4, <1>5, <1>6 DEF PersistenceInv

LEMMA AbortKept ==
    ASSUME TypeOK, PersistenceInv, NEW d \in Datasets, Abort(d)
    PROVE  TypeOK' /\ PersistenceInv'
<1>1. /\ staging' = [staging EXCEPT ![d] = Nothing] /\ ingest' = [ingest EXCEPT ![d] = "idle"]
      /\ UNCHANGED <<canonical, sidecar, unsaved, store, building, query, mode, unloaded,
                     builds, crashes>>
      /\ ingest[d] \in {"building", "built"}
  BY DEF Abort
<1>2. DatasetOK(d)
  BY DEF PersistenceInv
<1>3. TypeOK'
  BY <1>1 DEF TypeOK
<1>4. ASSUME NEW e \in Datasets, e # d  PROVE  DatasetOK(e)'
  <2>1. DatasetOK(e) /\ crashes \in Nat /\ builds \in Nat
    BY DatasetTypes DEF PersistenceInv
  <2>2. QED
    BY <1>1, <1>4, <2>1, Untouched DEF TypeOK
<1>5. DatasetOK(d)'
  <2>1. ingest'[d] = "idle" /\ staging'[d] = Nothing
    BY <1>1 DEF TypeOK
  <2>2. IngestOK(d)'
    BY <2>1 DEF IngestOK
  <2>3. FilesOK(d)'
    BY <1>1, <1>2, <2>1 DEF DatasetOK, FilesOK
  <2>4. StoreOK(d)'
    BY <1>1, <1>2, <2>1 DEF DatasetOK, StoreOK, Identical
  <2>5. QED
    BY <2>2, <2>3, <2>4 DEF DatasetOK
<1>6. \A q \in Queries : QueryOK(q)'
  BY <1>1, QueriesKept
<1>7. QED
  BY <1>3, <1>4, <1>5, <1>6 DEF PersistenceInv

\* The rename: the build becomes the canonical file, newer than either record.
LEMMA PromoteKept ==
    ASSUME TypeOK, PersistenceInv, NEW d \in Datasets, Promote(d)
    PROVE  TypeOK' /\ PersistenceInv'
<1>1. /\ canonical' = [canonical EXCEPT ![d] = staging[d]]
      /\ staging' = [staging EXCEPT ![d] = Nothing] /\ ingest' = [ingest EXCEPT ![d] = "promoted"]
      /\ UNCHANGED <<sidecar, unsaved, store, building, query, mode, unloaded, builds, crashes>>
      /\ ingest[d] = "built"
  BY DEF Promote
<1>2. /\ DatasetOK(d) /\ staging[d] = building[d] /\ building[d] \in Data
      /\ building[d].build <= builds /\ mode = "serving"
      /\ sidecar[d].of.build <= building[d].build /\ store[d].of.build <= building[d].build
  BY <1>1 DEF PersistenceInv, DatasetOK, IngestOK
<1>3. building[d] # Nothing /\ building[d] # Partial
  BY <1>2, DataFacts
<1>4. TypeOK'
  BY <1>1, <1>2 DEF TypeOK
<1>5. ASSUME NEW e \in Datasets, e # d  PROVE  DatasetOK(e)'
  <2>1. DatasetOK(e) /\ crashes \in Nat /\ builds \in Nat
    BY DatasetTypes DEF PersistenceInv
  <2>2. QED
    BY <1>1, <1>5, <2>1, Untouched DEF TypeOK
<1>6. DatasetOK(d)'
  <2>1. ingest'[d] = "promoted" /\ staging'[d] = Nothing /\ canonical'[d] = building[d]
    BY <1>1, <1>2 DEF TypeOK
  <2>2. IngestOK(d)'
    BY <1>1, <1>2, <2>1 DEF IngestOK
  <2>3. FilesOK(d)'
    BY <1>1, <1>2, <1>3, <2>1 DEF DatasetOK, FilesOK
  <2>4. StoreOK(d)'
    BY <1>1, <1>2, <1>3, <2>1 DEF DatasetOK, StoreOK
  <2>5. QED
    BY <2>2, <2>3, <2>4 DEF DatasetOK
<1>7. \A q \in Queries : QueryOK(q)'
  <2>1. \A e \in Datasets : canonical[e] # Nothing => canonical'[e] # Nothing
    BY <1>1, <1>2, <1>3 DEF TypeOK
  <2>2. QED
    BY <1>1, <2>1, QueriesKept
<1>8. QED
  BY <1>4, <1>5, <1>6, <1>7 DEF PersistenceInv

\* A sidecar that is written is of the canonical file; one that is not is
\* remembered as unsaved.
LEMMA WriteSidecarKept ==
    ASSUME TypeOK, PersistenceInv, NEW d \in Datasets, WriteSidecar(d)
    PROVE  TypeOK' /\ PersistenceInv'
<1>1. /\ ingest' = [ingest EXCEPT ![d] = "returned"]
      /\ UNCHANGED <<staging, canonical, store, building, query, mode, unloaded, builds, crashes>>
      /\ ingest[d] = "promoted"
  BY DEF WriteSidecar
<1>2. \/ /\ sidecar' = [sidecar EXCEPT ![d] = Ready(building[d])]
         /\ unsaved' = [unsaved EXCEPT ![d] = FALSE]
      \/ unsaved' = [unsaved EXCEPT ![d] = TRUE] /\ sidecar' = sidecar
  BY DEF WriteSidecar
<1>3. /\ DatasetOK(d) /\ canonical[d] = building[d] /\ building[d] \in Data
      /\ building[d].build <= builds /\ mode = "serving"
  BY <1>1 DEF PersistenceInv, DatasetOK, IngestOK
<1>4. /\ Ready(building[d]) \in Records /\ Ready(building[d]).of = building[d]
      /\ building[d].build \in Nat /\ building[d] # Nothing
  BY <1>3, ReadyFacts, DataFacts
<1>5. TypeOK'
  <2>1. sidecar' \in [Datasets -> Records \cup {NoRecord}]
    <3>1. sidecar' = sidecar \/ sidecar' = [sidecar EXCEPT ![d] = Ready(building[d])]
      BY <1>2
    <3>2. QED
      BY <1>4, <3>1 DEF TypeOK
  <2>2. unsaved' \in [Datasets -> BOOLEAN]
    BY <1>2 DEF TypeOK
  <2>3. ingest' \in [Datasets -> {"idle", "building", "built", "promoted", "returned"}]
    BY <1>1 DEF TypeOK
  <2>4. QED
    BY <1>1, <2>1, <2>2, <2>3 DEF TypeOK
<1>6. ASSUME NEW e \in Datasets, e # d  PROVE  DatasetOK(e)'
  <2>1. DatasetOK(e) /\ crashes \in Nat /\ builds \in Nat
    BY DatasetTypes DEF PersistenceInv
  <2>2. sidecar'[e] = sidecar[e] /\ unsaved'[e] = unsaved[e] /\ ingest'[e] = ingest[e]
    BY <1>1, <1>2, <1>6 DEF TypeOK
  <2>3. QED
    BY <1>1, <2>1, <2>2, Untouched
<1>7. DatasetOK(d)'
  <2>1. /\ ingest'[d] = "returned"
        /\ \/ sidecar'[d] = Ready(building[d]) /\ ~unsaved'[d]
           \/ sidecar'[d] = sidecar[d] /\ unsaved'[d]
    BY <1>1, <1>2 DEF TypeOK
  <2>2. IngestOK(d)'
    BY <1>1, <1>3, <2>1 DEF IngestOK
  <2>3. FilesOK(d)'
    BY <1>1, <1>3, <1>4, <2>1 DEF DatasetOK, FilesOK
  <2>4. StoreOK(d)'
    BY <1>1, <1>3, <2>1 DEF DatasetOK, StoreOK
  <2>5. QED
    BY <2>2, <2>3, <2>4 DEF DatasetOK
<1>8. \A q \in Queries : QueryOK(q)'
  BY <1>1, QueriesKept
<1>9. QED
  BY <1>5, <1>6, <1>7, <1>8 DEF PersistenceInv

\* What is registered is the promoted build, and the sidecar's if that was
\* written.
LEMMA RegisterKept ==
    ASSUME TypeOK, PersistenceInv, NEW d \in Datasets, Register(d)
    PROVE  TypeOK' /\ PersistenceInv'
<1>1. /\ store' = [store EXCEPT ![d] = Ready(building[d])]
      /\ ingest' = [ingest EXCEPT ![d] = "idle"]
      /\ UNCHANGED <<staging, canonical, sidecar, unsaved, building, query, mode, unloaded,
                     builds, crashes>>
      /\ ingest[d] = "returned"
  BY DEF Register, fileVars
<1>2. /\ DatasetOK(d) /\ canonical[d] = building[d] /\ building[d] \in Data
      /\ building[d].build <= builds /\ mode = "serving"
      /\ ~unsaved[d] => sidecar[d] = Ready(building[d])
  BY <1>1 DEF PersistenceInv, DatasetOK, IngestOK
<1>3. /\ Ready(building[d]) \in Records /\ Ready(building[d]).of = building[d]
      /\ Ready(building[d]).version = CURRENT_MODEL_VERSION /\ CURRENT_MODEL_VERSION = 3
      /\ Identical(Ready(building[d]), building[d])
      /\ building[d].build \in Nat /\ building[d] # Nothing
  BY <1>2, ReadyFacts, DataFacts DEF CURRENT_MODEL_VERSION
<1>4. TypeOK'
  BY <1>1, <1>3 DEF TypeOK
<1>5. ASSUME NEW e \in Datasets, e # d  PROVE  DatasetOK(e)'
  <2>1. DatasetOK(e) /\ crashes \in Nat /\ builds \in Nat
    BY DatasetTypes DEF PersistenceInv
  <2>2. QED
    BY <1>1, <1>5, <2>1, Untouched DEF TypeOK
<1>6. DatasetOK(d)'
  <2>1. ingest'[d] = "idle" /\ store'[d] = Ready(building[d])
    BY <1>1 DEF TypeOK
  <2>2. IngestOK(d)'
    BY <2>1 DEF IngestOK
  <2>3. FilesOK(d)'
    BY <1>1, <1>2, <1>3, <2>1 DEF DatasetOK, FilesOK
  <2>4. Identical(store'[d], canonical'[d])
    BY <1>1, <1>2, <1>3, <2>1
  <2>5. StoreOK(d)'
    BY <1>1, <1>2, <1>3, <2>1, <2>4 DEF StoreOK, Identical
  <2>6. QED
    BY <2>2, <2>3, <2>5 DEF DatasetOK
<1>7. \A q \in Queries : QueryOK(q)'
  BY <1>1, QueriesKept
<1>8. QED
  BY <1>4, <1>5, <1>6, <1>7 DEF PersistenceInv

-----------------------------------------------------------------------------
(* Queries. *)

\* No step of a query touches a dataset.
LEMMA QueryLeavesDatasets ==
    ASSUME TypeOK, PersistenceInv,
           UNCHANGED <<fileVars, store, ingest, building, mode, unloaded, builds, crashes>>
    PROVE  \A d \in Datasets : DatasetOK(d)'
<1>1. UNCHANGED <<staging, canonical, sidecar, unsaved, store, ingest, building, mode, builds, crashes>>
  BY DEF fileVars
<1>2. TAKE d \in Datasets
<1>3. DatasetOK(d) /\ crashes \in Nat /\ builds \in Nat
  BY DatasetTypes DEF PersistenceInv
<1>4. QED
  BY <1>1, <1>3, Untouched

LEMMA SubmitQueryKept ==
    ASSUME TypeOK, PersistenceInv, NEW q \in Queries, NEW d \in Datasets, SubmitQuery(q, d)
    PROVE  TypeOK' /\ PersistenceInv'
<1> DEFINE new == [at |-> "submitted", dataset |-> d, record |-> store[d], data |-> Nothing]
<1>1. /\ query' = [query EXCEPT ![q] = new] /\ mode = "serving" /\ store[d] # NoRecord
      /\ UNCHANGED <<fileVars, store, ingest, building, mode, unloaded, builds, crashes>>
      /\ UNCHANGED <<staging, canonical, sidecar, unsaved>>
  BY DEF SubmitQuery, fileVars
<1>2. new \in [at : {"submitted", "opened"}, dataset : Datasets, record : Records,
               data : Data \cup {Nothing, Partial}]
  BY <1>1 DEF TypeOK
<1>3. TypeOK'
  BY <1>1, <1>2 DEF TypeOK
<1>4. ASSUME NEW p \in Queries  PROVE  QueryOK(p)'
  <2>1. CASE p = q
    <3>1. query'[p] = new /\ canonical[d] # Nothing
      BY <1>1, <2>1 DEF TypeOK, PersistenceInv, DatasetOK, StoreOK
    <3>2. QED
      BY <1>1, <3>1 DEF QueryOK
  <2>2. CASE p # q
    BY <1>1, <2>2 DEF TypeOK, PersistenceInv, QueryOK
  <2>3. QED
    BY <2>1, <2>2
<1>5. QED
  BY <1>1, <1>3, <1>4, QueryLeavesDatasets DEF PersistenceInv

LEMMA OpenDataKept ==
    ASSUME TypeOK, PersistenceInv, NEW q \in Queries, OpenData(q)
    PROVE  TypeOK' /\ PersistenceInv'
<1> DEFINE data == canonical[query[q].dataset]
           new == [query[q] EXCEPT !.at = "opened", !.data = data]
<1>1. /\ query' = [query EXCEPT ![q].at = "opened", ![q].data = data]
      /\ query[q].at = "submitted" /\ query[q] # NoQuery
      /\ UNCHANGED <<fileVars, store, ingest, building, mode, unloaded, builds, crashes>>
      /\ UNCHANGED <<staging, canonical, sidecar, unsaved>>
  BY DEF OpenData, fileVars, NoQuery
<1>2. query[q] \in [at : {"submitted", "opened"}, dataset : Datasets, record : Records,
                    data : Data \cup {Nothing, Partial}]
  BY <1>1 DEF TypeOK
<1>3. /\ data \in Data \cup {Nothing, Partial} /\ data # Nothing /\ data # Partial
      /\ mode = "serving"
  BY <1>1, <1>2, DatasetTypes DEF PersistenceInv, QueryOK, DatasetOK, FilesOK
<1>4. /\ new \in [at : {"submitted", "opened"}, dataset : Datasets, record : Records,
                  data : Data \cup {Nothing, Partial}]
      /\ new.dataset = query[q].dataset /\ new.data = data
  BY <1>2, <1>3
<1>5. query' = [query EXCEPT ![q] = new]
  BY <1>1, <1>2 DEF TypeOK
<1>6. TypeOK'
  BY <1>1, <1>4, <1>5 DEF TypeOK
<1>7. ASSUME NEW p \in Queries  PROVE  QueryOK(p)'
  <2>1. CASE p = q
    <3>1. query'[p] = new
      BY <1>5, <2>1 DEF TypeOK
    <3>2. QED
      BY <1>1, <1>3, <1>4, <3>1 DEF QueryOK
  <2>2. CASE p # q
    BY <1>1, <1>5, <2>2 DEF TypeOK, PersistenceInv, QueryOK
  <2>3. QED
    BY <2>1, <2>2
<1>8. QED
  BY <1>1, <1>6, <1>7, QueryLeavesDatasets DEF PersistenceInv

LEMMA EndQueryKept ==
    ASSUME TypeOK, PersistenceInv, NEW q \in Queries, EndQuery(q)
    PROVE  TypeOK' /\ PersistenceInv'
<1>1. /\ query' = [query EXCEPT ![q] = NoQuery]
      /\ UNCHANGED <<fileVars, store, ingest, building, mode, unloaded, builds, crashes>>
      /\ UNCHANGED <<staging, canonical, sidecar, unsaved>>
  BY DEF EndQuery, fileVars
<1>2. TypeOK'
  BY <1>1 DEF TypeOK
<1>3. \A p \in Queries : QueryOK(p)'
  BY <1>1 DEF TypeOK, PersistenceInv, QueryOK
<1>4. QED
  BY <1>1, <1>2, <1>3, QueryLeavesDatasets DEF PersistenceInv

-----------------------------------------------------------------------------
(* Crash and restart. *)

\* Memory is empty, and what is left on disk says nothing false.
LEMMA CrashKept ==
    ASSUME TypeOK, PersistenceInv, Crash
    PROVE  TypeOK' /\ PersistenceInv'
<1>1. /\ mode' = "down" /\ crashes' = crashes + 1 /\ crashes < MaxCrashes
      /\ store' = [d \in Datasets |-> NoRecord] /\ ingest' = [d \in Datasets |-> "idle"]
      /\ query' = [q \in Queries |-> NoQuery] /\ unloaded' = {}
      /\ unsaved' = [d \in Datasets |-> FALSE]
      /\ UNCHANGED <<staging, canonical, sidecar, building, builds>>
  BY DEF Crash
<1>2. TypeOK'
  BY <1>1, ContentAssumption DEF TypeOK
<1>3. ASSUME NEW d \in Datasets  PROVE  DatasetOK(d)'
  <2>1. DatasetOK(d) /\ store'[d] = NoRecord /\ ingest'[d] = "idle"
    BY <1>1 DEF PersistenceInv
  <2>2. builds \in Nat /\ crashes \in Nat /\ canonical[d].build \in Nat
    BY DatasetTypes
  <2>3. IngestOK(d)' /\ StoreOK(d)'
    BY <2>1 DEF IngestOK, StoreOK
  <2>4. FilesOK(d)'
    BY <1>1, <2>1, <2>2, NothingFacts DEF DatasetOK, FilesOK
  <2>5. QED
    BY <2>3, <2>4 DEF DatasetOK
<1>4. \A q \in Queries : QueryOK(q)'
  BY <1>1 DEF QueryOK
<1>5. QED
  BY <1>2, <1>3, <1>4 DEF PersistenceInv

\* A file may only be missing while nothing is registered.
LEMMA RemoveFileKept ==
    ASSUME TypeOK, PersistenceInv, NEW d \in Datasets, RemoveFile(d)
    PROVE  TypeOK' /\ PersistenceInv'
<1>1. /\ mode = "down"
      /\ UNCHANGED <<staging, unsaved, store, ingest, building, query, mode, unloaded, builds, crashes>>
  BY DEF RemoveFile
<1>2. \/ canonical' = [canonical EXCEPT ![d] = Nothing] /\ sidecar' = sidecar
      \/ sidecar' = [sidecar EXCEPT ![d] = NoRecord] /\ canonical' = canonical
  BY DEF RemoveFile
<1>3. TypeOK'
  BY <1>1, <1>2 DEF TypeOK
<1>4. ASSUME NEW e \in Datasets  PROVE  DatasetOK(e)'
  <2>1. DatasetOK(e) /\ ingest[e] = "idle" /\ store[e] = NoRecord
    BY <1>1 DEF PersistenceInv, DatasetOK, IngestOK, StoreOK
  <2>2. builds \in Nat /\ canonical[e].build \in Nat
    BY DatasetTypes
  <2>3. /\ canonical'[e] \in {canonical[e], Nothing}
        /\ sidecar'[e] = sidecar[e] \/ sidecar'[e] = NoRecord
    BY <1>2 DEF TypeOK
  <2>4. IngestOK(e)' /\ StoreOK(e)'
    BY <1>1, <2>1 DEF IngestOK, StoreOK
  <2>5. FilesOK(e)'
    BY <1>1, <2>1, <2>2, <2>3, NothingFacts DEF DatasetOK, FilesOK
  <2>6. QED
    BY <2>4, <2>5 DEF DatasetOK
<1>5. \A q \in Queries : QueryOK(q)'
  BY <1>1 DEF PersistenceInv, QueryOK
<1>6. QED
  BY <1>3, <1>4, <1>5 DEF PersistenceInv

LEMMA RestartKept ==
    ASSUME TypeOK, PersistenceInv, Restart
    PROVE  TypeOK' /\ PersistenceInv'
<1>1. /\ mode = "down" /\ mode' = "starting" /\ unloaded' = Datasets
      /\ UNCHANGED <<staging, canonical, sidecar, unsaved, store, ingest, building, query,
                     builds, crashes>>
  BY DEF Restart, fileVars
<1>2. TypeOK'
  BY <1>1 DEF TypeOK
<1>3. ASSUME NEW d \in Datasets  PROVE  DatasetOK(d)'
  <2>1. DatasetOK(d) /\ ingest[d] = "idle" /\ store[d] = NoRecord
    BY <1>1 DEF PersistenceInv, DatasetOK, IngestOK, StoreOK
  <2>2. IngestOK(d)' /\ StoreOK(d)' /\ FilesOK(d)'
    BY <1>1, <2>1 DEF DatasetOK, IngestOK, StoreOK, FilesOK
  <2>3. QED
    BY <2>2 DEF DatasetOK
<1>4. \A q \in Queries : QueryOK(q)'
  BY <1>1 DEF PersistenceInv, QueryOK
<1>5. QED
  BY <1>2, <1>3, <1>4 DEF PersistenceInv

\* What is rehydrated passed the identity check and is the sidecar's, which is
\* rewritten only to say the same of the same build.
LEMMA LoadKept ==
    ASSUME TypeOK, PersistenceInv, NEW d \in Datasets, Load(d)
    PROVE  TypeOK' /\ PersistenceInv'
<1>1. /\ mode = "starting" /\ unloaded' = unloaded \ {d}
      /\ UNCHANGED <<staging, canonical, unsaved, ingest, building, query, mode, builds, crashes>>
  BY DEF Load
<1>2. CASE store' = store /\ sidecar' = sidecar
  <2>1. TypeOK'
    BY <1>1, <1>2 DEF TypeOK
  <2>2. ASSUME NEW e \in Datasets  PROVE  DatasetOK(e)'
    <3>1. DatasetOK(e) /\ crashes \in Nat /\ builds \in Nat
      BY DatasetTypes DEF PersistenceInv
    <3>2. QED
      BY <1>1, <1>2, <3>1, Untouched
  <2>3. \A q \in Queries : QueryOK(q)'
    BY <1>1, QueriesKept
  <2>4. QED
    BY <2>1, <2>2, <2>3 DEF PersistenceInv
<1>3. ASSUME NEW outcome, Acceptable(sidecar[d], canonical[d]),
             store' = [store EXCEPT ![d] = Migrated(sidecar[d], outcome)],
             sidecar' \in {sidecar, [sidecar EXCEPT ![d] = Migrated(sidecar[d], outcome)]}
      PROVE  TypeOK' /\ PersistenceInv'
  <2> DEFINE record == Migrated(sidecar[d], outcome)
  <2>1. /\ sidecar[d] \in Records /\ canonical[d] # Nothing /\ Identical(sidecar[d], canonical[d])
    BY <1>3, DatasetTypes DEF Acceptable, Identical
  <2>2. /\ record \in Records /\ record.of = sidecar[d].of
        /\ sidecar[d].version <= record.version
    BY <1>3, <2>1, MigratedFacts
  <2>3. TypeOK'
    BY <1>1, <1>3, <2>2 DEF TypeOK
  <2>4. ASSUME NEW e \in Datasets, e # d  PROVE  DatasetOK(e)'
    <3>1. DatasetOK(e) /\ crashes \in Nat /\ builds \in Nat
      BY DatasetTypes DEF PersistenceInv
    <3>2. store'[e] = store[e] /\ sidecar'[e] = sidecar[e]
      BY <1>3, <2>4 DEF TypeOK
    <3>3. QED
      BY <1>1, <3>1, <3>2, Untouched
  <2>5. DatasetOK(d)'
    <3>1. DatasetOK(d) /\ store'[d] = record /\ (sidecar'[d] = sidecar[d] \/ sidecar'[d] = record)
      BY <1>3 DEF TypeOK, PersistenceInv
    <3>2. /\ sidecar'[d].of = sidecar[d].of /\ store'[d].of = sidecar[d].of
          /\ sidecar'[d].version <= store'[d].version
      BY <2>2, <3>1, RecordFacts DEF Versions
    <3>3. ingest[d] = "idle"
      BY <1>1, <3>1 DEF DatasetOK, IngestOK
    <3>4. IngestOK(d)'
      BY <1>1, <3>3 DEF IngestOK
    <3>5. FilesOK(d)'
      BY <1>1, <2>1, <3>1, <3>2 DEF DatasetOK, FilesOK
    <3>6. StoreOK(d)'
      BY <1>1, <2>1, <3>2, <3>3 DEF StoreOK, Identical
    <3>7. QED
      BY <3>4, <3>5, <3>6 DEF DatasetOK
  <2>6. \A q \in Queries : QueryOK(q)'
    BY <1>1, QueriesKept
  <2>7. QED
    BY <2>3, <2>4, <2>5, <2>6 DEF PersistenceInv
<1>4. QED
  BY <1>2, <1>3 DEF Load

LEMMA ServeKept ==
    ASSUME TypeOK, PersistenceInv, Serve
    PROVE  TypeOK' /\ PersistenceInv'
<1>1. /\ mode = "starting" /\ mode' = "serving"
      /\ UNCHANGED <<staging, canonical, sidecar, unsaved, store, ingest, building, query, unloaded,
                     builds, crashes>>
  BY DEF Serve, fileVars
<1>2. TypeOK'
  BY <1>1 DEF TypeOK
<1>3. ASSUME NEW d \in Datasets  PROVE  DatasetOK(d)'
  <2>1. DatasetOK(d) /\ crashes \in Nat /\ builds \in Nat
    BY DatasetTypes DEF PersistenceInv
  <2>2. QED
    BY <1>1, <2>1, Untouched
<1>4. \A q \in Queries : QueryOK(q)'
  BY <1>1 DEF PersistenceInv, QueryOK
<1>5. QED
  BY <1>2, <1>3, <1>4 DEF PersistenceInv

-----------------------------------------------------------------------------
(* Every state. *)

LEMMA PersistenceInit == Init => TypeOK /\ PersistenceInv
<1> SUFFICES ASSUME Init  PROVE TypeOK /\ PersistenceInv
  OBVIOUS
<1>1. PICK c \in Contents, v \in Versions, present \in SUBSET Datasets :
        LET data == [build |-> 1, content |-> c] IN
        /\ canonical = [d \in Datasets |-> IF d \in present THEN data ELSE Nothing]
        /\ sidecar = [d \in Datasets |-> IF d \in present
              THEN [of |-> data, version |-> v, derived |-> v = CURRENT_MODEL_VERSION]
              ELSE NoRecord]
  BY DEF Init
<1> DEFINE data == [build |-> 1, content |-> c]
           record == [of |-> data, version |-> v, derived |-> v = CURRENT_MODEL_VERSION]
<1>2. data \in Data /\ data.build = 1
  BY ContentAssumption DEF Data
<1>3. (v = CURRENT_MODEL_VERSION) \in BOOLEAN
  OBVIOUS
<1>4. record \in Records /\ record.of = data
  BY <1>2, <1>3 DEF Records
<1>5. ASSUME NEW d \in Datasets
      PROVE  \/ canonical[d] = data /\ sidecar[d] = record
             \/ canonical[d] = Nothing /\ sidecar[d] = NoRecord
  BY <1>1
<1>6. canonical \in [Datasets -> Data \cup {Nothing, Partial}]
  BY <1>1, <1>2
<1>7. sidecar \in [Datasets -> Records \cup {NoRecord}]
  BY <1>1, <1>4
<1>8. TypeOK
  BY <1>6, <1>7, ContentAssumption DEF Init, TypeOK
<1>9. ASSUME NEW d \in Datasets  PROVE  DatasetOK(d)
  <2>1. ingest[d] = "idle" /\ staging[d] = Nothing /\ store[d] = NoRecord /\ builds = 1
    BY DEF Init
  <2>2. sidecar[d].of = canonical[d] /\ canonical[d] # Partial
    BY <1>2, <1>4, <1>5, DataFacts, NothingFacts
  <2>3. canonical[d].build \in {0, 1}
    BY <1>2, <1>5, NothingFacts
  <2>4. IngestOK(d) /\ StoreOK(d)
    BY <2>1 DEF IngestOK, StoreOK
  <2>5. FilesOK(d)
    BY <2>1, <2>2, <2>3, NothingFacts DEF FilesOK
  <2>6. QED
    BY <2>4, <2>5 DEF DatasetOK
<1>10. \A q \in Queries : QueryOK(q)
  BY DEF Init, QueryOK
<1>11. QED
  BY <1>8, <1>9, <1>10 DEF PersistenceInv

LEMMA PersistenceStep == TypeOK /\ PersistenceInv /\ [Next]_vars => TypeOK' /\ PersistenceInv'
<1> SUFFICES ASSUME TypeOK, PersistenceInv, [Next]_vars  PROVE TypeOK' /\ PersistenceInv'
  OBVIOUS
<1>1. CASE UNCHANGED vars
  BY <1>1 DEF vars, fileVars, TypeOK, PersistenceInv, DatasetOK, IngestOK, FilesOK, StoreOK, QueryOK,
              Identical
<1>2. CASE \E d \in Datasets :
              \/ \E c \in Contents : StartIngest(d, c)
              \/ Build(d) \/ Abort(d) \/ Promote(d) \/ WriteSidecar(d) \/ Register(d)
              \/ RemoveFile(d) \/ Load(d)
  BY <1>2, StartIngestKept, BuildKept, AbortKept, PromoteKept, WriteSidecarKept, RegisterKept,
     RemoveFileKept, LoadKept
<1>3. CASE \E q \in Queries : (\E d \in Datasets : SubmitQuery(q, d)) \/ OpenData(q) \/ EndQuery(q)
  BY <1>3, SubmitQueryKept, OpenDataKept, EndQueryKept
<1>4. CASE Crash \/ Restart \/ Serve
  BY <1>4, CrashKept, RestartKept, ServeKept
<1>5. QED
  BY <1>1, <1>2, <1>3, <1>4 DEF Next

\* In every reachable state, whatever was written, renamed, lost or removed,
\* files, records and ingests fit one another.
THEOREM PersistenceInvariant == Spec => [](TypeOK /\ PersistenceInv)
  BY PersistenceInit, PersistenceStep, PTL DEF Spec

\* The state of files, sidecars, store, ingests and queries is always
\* well-typed.
THEOREM PersistenceTypeCorrect == Spec => []TypeOK
  BY PersistenceInvariant, PTL

\* A half-built file never reaches the canonical path, every registered
\* dataset has data, and staging files belong to ingests or to crashes.
THEOREM WholeData == Spec => []OnlyWholeDataVisible
<1>1. TypeOK /\ PersistenceInv => OnlyWholeDataVisible
  BY DEF TypeOK, PersistenceInv, DatasetOK, FilesOK, StoreOK, QueryOK, OnlyWholeDataVisible, NoQuery
<1>2. QED
  BY <1>1, PersistenceInvariant, PTL

\* Neither the persisted nor the registered model is newer than the data.
THEOREM UnderstandingFollowsData == Spec => []ModelNotAheadOfData
<1>1. PersistenceInv => ModelNotAheadOfData
  BY DEF PersistenceInv, DatasetOK, FilesOK, ModelNotAheadOfData
<1>2. QED
  BY <1>1, PersistenceInvariant, PTL

\* Outside a promotion, what is registered fits the file as far as the
\* identity check goes.
THEOREM QuietModels == Spec => []QuietModelFitsData
<1>1. PersistenceInv => QuietModelFitsData
  BY DEF PersistenceInv, DatasetOK, StoreOK, QuietModelFitsData
<1>2. QED
  BY <1>1, PersistenceInvariant, PTL

\* A served dataset whose sidecar was written is what a restart would find.
THEOREM ServedPersists == Spec => []ServedIsPersisted
<1>1. PersistenceInv => ServedIsPersisted
  BY DEF PersistenceInv, DatasetOK, StoreOK, ServedIsPersisted
<1>2. QED
  BY <1>1, PersistenceInvariant, PTL
=============================================================================
