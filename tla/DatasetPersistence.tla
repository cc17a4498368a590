------------------------- MODULE DatasetPersistence -------------------------
(***************************************************************************)
(* Where a dataset lives and how it survives: the staging file an ingest   *)
(* builds, the canonical DuckDB file it is promoted to, the sidecar that   *)
(* persists its semantic model, and the in-memory store queries start      *)
(* from.  The process may crash between any two steps and restarts by      *)
(* rehydrating the store from the sidecars.                                *)
(*                                                                         *)
(* Ingests of one dataset run one at a time, as DatasetJobs promises, so   *)
(* one ingest process per dataset is enough.  A build is one run of the    *)
(* ingest pipeline; its content stands for the rows of the uploaded file,  *)
(* and a semantic model is good for the content it was verified against.   *)
(***************************************************************************)
EXTENDS Naturals

CONSTANTS
    Datasets,
    Contents,     \* what uploaded files may contain
    RowCount,     \* content -> number of rows
    Columns,      \* content -> column names
    Bound,        \* content -> the columns its model binds
    Queries,
    MaxBuilds,    \* bound: how many ingests are started
    MaxCrashes    \* bound: how often the process crashes

CURRENT_MODEL_VERSION == 3
MIGRATABLE_VERSIONS == {1, 2}
Versions == 1..4       \* 4 stands for any version this release does not know

ASSUME ContentAssumption ==
    /\ MaxBuilds \in Nat /\ MaxCrashes \in Nat
    /\ RowCount \in [Contents -> Nat]
    /\ \A c \in Contents : Bound[c] \subseteq Columns[c]

VARIABLES
    staging, canonical,   \* dataset -> the data file there, if any
    sidecar,              \* dataset -> the persisted Dataset record, if any
    unsaved,              \* history: dataset -> did this process fail to write its sidecar
    store,                \* dataset -> the registered Dataset record, if any
    ingest,               \* dataset -> the position of its ingest
    building,             \* dataset -> the build of its ingest
    query,                \* query -> what it runs on
    mode,                 \* is the process down, starting or serving
    unloaded,             \* the datasets load_persisted has still to visit
    builds, crashes       \* counters, for the bounds

fileVars == <<staging, canonical, sidecar, unsaved>>
vars == <<fileVars, store, ingest, building, query, mode, unloaded, builds, crashes>>

Nothing == [build |-> 0, content |-> "none"]
Partial == [build |-> 0, content |-> "partial"]
Data == [build : 1..(MaxBuilds + 1), content : Contents]

\* A Dataset record: the build its model was verified against, the version of
\* the model's schema, and whether the fields a migration re-derives are there.
NoRecord == [of |-> Nothing, version |-> 0, derived |-> FALSE]
Records == [of : Data, version : Versions, derived : BOOLEAN]
Ready(data) == [of |-> data, version |-> CURRENT_MODEL_VERSION, derived |-> TRUE]

NoQuery == [at |-> "none", dataset |-> "none", record |-> NoRecord, data |-> Nothing]

TypeOK ==
    /\ staging \in [Datasets -> Data \cup {Nothing, Partial}]
    /\ canonical \in [Datasets -> Data \cup {Nothing, Partial}]
    /\ sidecar \in [Datasets -> Records \cup {NoRecord}]
    /\ unsaved \in [Datasets -> BOOLEAN]
    /\ store \in [Datasets -> Records \cup {NoRecord}]
    /\ ingest \in [Datasets -> {"idle", "building", "built", "promoted", "returned"}]
    /\ building \in [Datasets -> Data \cup {Nothing}]
    /\ query \in [Queries ->
          [at : {"submitted", "opened"}, dataset : Datasets, record : Records,
           data : Data \cup {Nothing, Partial}] \cup {NoQuery}]
    /\ mode \in {"down", "starting", "serving"}
    /\ unloaded \in SUBSET Datasets
    /\ builds \in 1..(MaxBuilds + 1)
    /\ crashes \in 0..MaxCrashes

\* A data directory an earlier release may have left behind: nothing, or a
\* dataset with the sidecar that release wrote.  Only the current version has
\* the derived fields.
Init ==
    /\ \E c \in Contents, v \in Versions, present \in SUBSET Datasets :
          LET data == [build |-> 1, content |-> c] IN
          /\ canonical = [d \in Datasets |-> IF d \in present THEN data ELSE Nothing]
          /\ sidecar = [d \in Datasets |-> IF d \in present
                THEN [of |-> data, version |-> v, derived |-> v = CURRENT_MODEL_VERSION]
                ELSE NoRecord]
    /\ staging = [d \in Datasets |-> Nothing]
    /\ unsaved = [d \in Datasets |-> FALSE]
    /\ store = [d \in Datasets |-> NoRecord]
    /\ ingest = [d \in Datasets |-> "idle"]
    /\ building = [d \in Datasets |-> Nothing]
    /\ query = [q \in Queries |-> NoQuery]
    /\ mode = "down"
    /\ unloaded = {}
    /\ builds = 1
    /\ crashes = 0

-----------------------------------------------------------------------------
(* Ingest: the steps of run_ingest that touch files, in its worker thread. *)

\* The staging file is rebuilt from nothing, whatever a crash left there.
StartIngest(d, c) ==
    /\ mode = "serving" /\ ingest[d] = "idle" /\ builds <= MaxBuilds
    /\ builds' = builds + 1
    /\ building' = [building EXCEPT ![d] = [build |-> builds + 1, content |-> c]]
    /\ ingest' = [ingest EXCEPT ![d] = "building"]
    /\ staging' = [staging EXCEPT ![d] = Partial]
    /\ UNCHANGED <<canonical, sidecar, unsaved, store, query, mode, unloaded, crashes>>

\* Loaded, profiled and understood; the last boundary is passed.
Build(d) ==
    /\ ingest[d] = "building"
    /\ staging' = [staging EXCEPT ![d] = building[d]]
    /\ ingest' = [ingest EXCEPT ![d] = "built"]
    /\ UNCHANGED <<canonical, sidecar, unsaved, store, building, query, mode, unloaded, builds, crashes>>

\* A failure, a cancel at a boundary, or a rename that fails: the finally
\* clause removes the staging file.
Abort(d) ==
    /\ ingest[d] \in {"building", "built"}
    /\ staging' = [staging EXCEPT ![d] = Nothing]
    /\ ingest' = [ingest EXCEPT ![d] = "idle"]
    /\ UNCHANGED <<canonical, sidecar, unsaved, store, building, query, mode, unloaded, builds, crashes>>

\* Mutant of Promote: the rename does not wait for the build.
PromoteEarly(d) ==
    /\ ingest[d] \in {"building", "built"}
    /\ canonical' = [canonical EXCEPT ![d] = staging[d]]
    /\ staging' = [staging EXCEPT ![d] = Nothing]
    /\ ingest' = [ingest EXCEPT ![d] = "promoted"]
    /\ UNCHANGED <<sidecar, unsaved, store, building, query, mode, unloaded, builds, crashes>>

\* promote: the rename replaces the canonical file.
Promote(d) ==
    /\ ingest[d] = "built"
    /\ canonical' = [canonical EXCEPT ![d] = staging[d]]
    /\ staging' = [staging EXCEPT ![d] = Nothing]
    /\ ingest' = [ingest EXCEPT ![d] = "promoted"]
    /\ UNCHANGED <<sidecar, unsaved, store, building, query, mode, unloaded, builds, crashes>>

\* Mutant of WriteSidecar: the sidecar is written before the promotion.
WriteSidecarFirst(d) ==
    /\ ingest[d] = "built"
    /\ sidecar' = [sidecar EXCEPT ![d] = Ready(building[d])]
    /\ UNCHANGED <<staging, canonical, unsaved, store, ingest, building, query, mode,
                   unloaded, builds, crashes>>

\* Mutant of WriteSidecar: the record is taken from the staging file.
WriteSidecarOfStaging(d) ==
    /\ ingest[d] = "promoted"
    /\ sidecar' = [sidecar EXCEPT ![d] = Ready(staging[d])]
    /\ ingest' = [ingest EXCEPT ![d] = "returned"]
    /\ UNCHANGED <<staging, canonical, unsaved, store, building, query, mode, unloaded, builds, crashes>>

\* write_sidecar replaces the sidecar, or raises an OSError that run_ingest
\* swallows.
WriteSidecar(d) ==
    /\ ingest[d] = "promoted"
    /\ \/ sidecar' = [sidecar EXCEPT ![d] = Ready(building[d])] /\ unsaved' = [unsaved EXCEPT ![d] = FALSE]
       \/ unsaved' = [unsaved EXCEPT ![d] = TRUE] /\ UNCHANGED sidecar
    /\ ingest' = [ingest EXCEPT ![d] = "returned"]
    /\ UNCHANGED <<staging, canonical, store, building, query, mode, unloaded, builds, crashes>>

\* Back on the event loop, the finished job registers its dataset.
Register(d) ==
    /\ ingest[d] = "returned"
    /\ store' = [store EXCEPT ![d] = Ready(building[d])]
    /\ ingest' = [ingest EXCEPT ![d] = "idle"]
    /\ UNCHANGED <<fileVars, building, query, mode, unloaded, builds, crashes>>

-----------------------------------------------------------------------------
(* Queries. *)

\* query_dataset captures the registered record; the plan is bound to it.
SubmitQuery(q, d) ==
    /\ mode = "serving" /\ query[q] = NoQuery /\ store[d] # NoRecord
    /\ query' = [query EXCEPT ![q] =
          [at |-> "submitted", dataset |-> d, record |-> store[d], data |-> Nothing]]
    /\ UNCHANGED <<fileVars, store, ingest, building, mode, unloaded, builds, crashes>>

\* dataset.connect() opens whatever file is at the canonical path by then.
OpenData(q) ==
    /\ query[q].at = "submitted"
    /\ query' = [query EXCEPT ![q].at = "opened", ![q].data = canonical[query[q].dataset]]
    /\ UNCHANGED <<fileVars, store, ingest, building, mode, unloaded, builds, crashes>>

EndQuery(q) ==
    /\ query[q] # NoQuery
    /\ query' = [query EXCEPT ![q] = NoQuery]
    /\ UNCHANGED <<fileVars, store, ingest, building, mode, unloaded, builds, crashes>>

-----------------------------------------------------------------------------
(* Crash and restart. *)

\* Memory is lost, files stay as they are.
Crash ==
    /\ mode # "down" /\ crashes < MaxCrashes
    /\ mode' = "down" /\ crashes' = crashes + 1
    /\ store' = [d \in Datasets |-> NoRecord]
    /\ ingest' = [d \in Datasets |-> "idle"]
    /\ query' = [q \in Queries |-> NoQuery]
    /\ unloaded' = {}
    /\ unsaved' = [d \in Datasets |-> FALSE]
    /\ UNCHANGED <<staging, canonical, sidecar, building, builds>>

\* The operator removes a file of a dataset by hand.
RemoveFile(d) ==
    /\ mode = "down"
    /\ \/ canonical' = [canonical EXCEPT ![d] = Nothing] /\ UNCHANGED sidecar
       \/ sidecar' = [sidecar EXCEPT ![d] = NoRecord] /\ UNCHANGED canonical
    /\ UNCHANGED <<staging, unsaved, store, ingest, building, query, mode, unloaded, builds, crashes>>

Restart ==
    /\ mode = "down"
    /\ mode' = "starting"
    /\ unloaded' = Datasets
    /\ UNCHANGED <<fileVars, store, ingest, building, query, builds, crashes>>

\* _identity_mismatch finds nothing: the file is there, it has as many rows
\* as the record says, and every column the model binds.
Identical(record, data) ==
    /\ data # Nothing
    /\ RowCount[record.of.content] = RowCount[data.content]
    /\ Bound[record.of.content] \subseteq Columns[data.content]

\* Mutant of Acceptable: the identity of the file is not checked.
AcceptableUnchecked(record, data) ==
    /\ record # NoRecord
    /\ record.version \in MIGRATABLE_VERSIONS \cup {CURRENT_MODEL_VERSION}
    /\ data # Nothing

Acceptable(record, data) ==
    /\ record # NoRecord
    /\ record.version \in MIGRATABLE_VERSIONS \cup {CURRENT_MODEL_VERSION}
    /\ Identical(record, data)

\* _migrate_in_place.  If the file cannot be opened the record stays as it
\* is.  Otherwise the version is bumped, also when the helpers met errors
\* they swallow and left the derived fields empty.
Migrated(record, outcome) ==
    IF record.version = CURRENT_MODEL_VERSION \/ outcome = "unopened" THEN record
    ELSE [record EXCEPT !.version = CURRENT_MODEL_VERSION, !.derived = outcome = "rederived"]

\* Mutant of Load: a rewrite of the sidecar that fails loses it.
LoadLosingSidecar(d) ==
    /\ mode = "starting" /\ d \in unloaded
    /\ unloaded' = unloaded \ {d}
    /\ \/ /\ Acceptable(sidecar[d], canonical[d])
          /\ \E outcome \in {"unopened", "swallowed", "rederived"} :
                LET record == Migrated(sidecar[d], outcome) IN
                /\ store' = [store EXCEPT ![d] = record]
                /\ sidecar' \in {[sidecar EXCEPT ![d] = NoRecord], [sidecar EXCEPT ![d] = record]}
       \/ /\ ~Acceptable(sidecar[d], canonical[d])
          /\ UNCHANGED <<store, sidecar>>
    /\ UNCHANGED <<staging, canonical, unsaved, ingest, building, query, mode, builds, crashes>>

\* One turn of load_persisted's loop: an acceptable record is migrated if it
\* is old, its sidecar rewritten if that succeeds, and registered; any other
\* is skipped and its sidecar left alone.
Load(d) ==
    /\ mode = "starting" /\ d \in unloaded
    /\ unloaded' = unloaded \ {d}
    /\ \/ /\ Acceptable(sidecar[d], canonical[d])
          /\ \E outcome \in {"unopened", "swallowed", "rederived"} :
                LET record == Migrated(sidecar[d], outcome) IN
                /\ store' = [store EXCEPT ![d] = record]
                /\ sidecar' \in {sidecar, [sidecar EXCEPT ![d] = record]}
       \/ /\ ~Acceptable(sidecar[d], canonical[d])
          /\ UNCHANGED <<store, sidecar>>
    /\ UNCHANGED <<staging, canonical, unsaved, ingest, building, query, mode, builds, crashes>>

Serve ==
    /\ mode = "starting" /\ unloaded = {}
    /\ mode' = "serving"
    /\ UNCHANGED <<fileVars, store, ingest, building, query, unloaded, builds, crashes>>

Next ==
    \/ \E d \in Datasets :
          \/ \E c \in Contents : StartIngest(d, c)
          \/ Build(d) \/ Abort(d) \/ Promote(d) \/ WriteSidecar(d) \/ Register(d)
          \/ RemoveFile(d) \/ Load(d)
    \/ \E q \in Queries : (\E d \in Datasets : SubmitQuery(q, d)) \/ OpenData(q) \/ EndQuery(q)
    \/ Crash \/ Restart \/ Serve

Spec == Init /\ [][Next]_vars

-----------------------------------------------------------------------------
(* Properties. *)

\* A half-built file is never visible at the canonical path, whenever an
\* ingest fails, is cancelled or dies, and every registered dataset has data.
\* Only an ingest at work, or a crash, leaves a staging file.
OnlyWholeDataVisible ==
    /\ \A d \in Datasets : canonical[d] # Partial
    /\ \A d \in Datasets : store[d] # NoRecord => canonical[d] # Nothing
    /\ \A d \in Datasets : staging[d] # Nothing => ingest[d] \in {"building", "built"} \/ crashes > 0
    /\ \A q \in Queries : query[q].at = "opened" => query[q].data \notin {Nothing, Partial}

\* Neither the registered model nor the persisted one is ever newer than the
\* data at the canonical path: understanding is published after the data.
ModelNotAheadOfData ==
    \A d \in Datasets : canonical[d] # Nothing =>
        /\ sidecar[d].of.build <= canonical[d].build
        /\ store[d].of.build <= canonical[d].build

\* While no ingest of it is between promotion and registration, the model
\* registered for a dataset fits its file as far as the identity check goes.
QuietModelFitsData ==
    \A d \in Datasets :
        store[d] # NoRecord /\ ingest[d] \notin {"promoted", "returned"}
            => Identical(store[d], canonical[d])

\* A served dataset whose sidecar writes succeeded is what a restart would
\* find persisted: same build, and no older schema than the sidecar's.
ServedIsPersisted ==
    \A d \in Datasets :
        mode = "serving" /\ store[d] # NoRecord /\ ingest[d] # "returned" /\ ~unsaved[d]
            => sidecar[d].of = store[d].of /\ sidecar[d].version <= store[d].version

\* What the documentation says of the identity check: a table swapped
\* underneath "cannot rehydrate a model that is silently wrong about the data".
RehydratedModelIsRight ==
    \A d \in Datasets : mode = "starting" /\ store[d] # NoRecord
        => store[d].of.content = canonical[d].content

\* What the documentation says of a query during a re-ingest: it "reads the
\* previous promoted file".
QueryRunsOnItsModelsData ==
    \A q \in Queries : query[q].at = "opened"
        => query[q].data.content = query[q].record.of.content
=============================================================================
