# A verification project for nl-insights

nl-insights answers questions in English about an uploaded table. An upload is
ingested into a DuckDB file and a *semantic model* of it is built and verified;
a question is turned into a typed plan by a language model, the plan is bound
to the semantic model by a deterministic *binder* that may refuse it, and a
bound plan is compiled to SQL and run. Uploads and questions are *jobs*: HTTP
clients submit them, follow their progress by polling or by server-sent events,
and may cancel them.

This directory holds TLA+ modules that model the program, TLC configurations
that check them on small instances, and proofs that TLAPS checks for every
instance. Paths below are relative to the package, `src/nl_insights/`.

## The system

| component | state it keeps | operations | hard behaviours |
|---|---|---|---|
| **Job manager** `jobs/manager.py`, `jobs/events.py` | job records, idempotency map, per-dataset locks, the event loop's and the executor's queues | submit_ingest, submit_query, cancel, `_run`, `emit`, `_publish`, `_finish` | tasks of one loop interleave at every await; pipelines run in threads and report by callbacks; handlers in other threads cancel and poll |
| **Event streams** `manager.stream`, `api/app.py stream_job` | a queue per open stream | subscribe, replay, follow, close, disconnect | events published while the history is replayed; jobs that end meanwhile; clients that vanish |
| **Polling** `_Job.view`, `get_job` | none | a field-by-field read of a job record | runs in a thread of its own while the loop ends the job |
| **Pipelines** `jobs/pipeline.py` | none of their own | run_ingest, run_query: stages separated by `emit` | cancellation only at stage boundaries; every error must become a shaped one |
| **Store and persistence** `jobs/store.py` | staging, canonical and sidecar files; the in-memory store | promote, write_sidecar, load_persisted, migration, `Dataset.connect` | crashes between any two steps, swallowed I/O errors, re-ingest under running queries |
| **HTTP API** `api/app.py` | uploads on disk | upload admission, samples, follow-up resolution, job endpoints | retried uploads that rewrite a file being read, the free-space guard, jobs of other datasets |
| **Ingestion** `ingestion/` | the table under construction | sniff_dialect, ingest, resolve_date_order, compute_profile | a sample cut anywhere; dates read three times; which dependencies are looked at |
| **Semantic model builder** `semantic/` | the model under construction | propose (language model or heuristic), verify, discover, resolve measures | a refuted role must not be reachable through any derived field; a key or a slice of the time must not be summed |
| **Interpreter** `interpreter/` | none | interpret, interpret_followup, merge_ir | chains of follow-ups that inherit fields |
| **Binder** `binder/` | none | bind | the order of its checks; plans built by merging |
| **Executor** `executor/` | none | compile, execute, finalise the verdict | plans the binder admits but that do not compile; period resolution |
| LLM providers, redaction, evaluation harness, CLI, web page | - | - | outside the models, see the end |

How they interact: HTTP handlers call the manager on the event loop (async
handlers) or in threads (plain handlers). The manager schedules one task per
job; the task hands the pipeline to the default executor with
`asyncio.to_thread`. The pipeline calls `emit`, which raises when the job was
cancelled and otherwise schedules `_publish` on the loop. `run_ingest` writes
files through the store; the manager registers its `Dataset` in memory when it
returns. `run_query` works on the `Dataset` captured when the query was
submitted and opens the file by path. A query may name an earlier job, whose
plan the follow-up is merged into.

## Modules

| module | models | instance |
|---|---|---|
| `Pipelines` | the stage order of `run_ingest` and `run_query`, their return points and error codes | - |
| `JobManager` | the manager, the loop, the executor and cancelling clients | `MCJobManager` |
| `DatasetJobs` | the abstract promise of the manager | refined by `JobManager` |
| `JobManagerInv`, `JobManagerProofs` | the inductive invariant, the proofs, and that `JobManager` implements `DatasetJobs` | `MCJobManager` checks the invariant |
| `JobClientsInv`, `JobClientsProofs` | the same for `JobClients` | - |
| `JobStream` | `JobManager` with SSE readers | through `JobClients` |
| `JobPoll` | `JobManager` with polling threads | through `JobClients` |
| `JobClients` | readers and pollers of the same jobs together | `MCJobClients` |
| `Uploads` | `JobManager` with the handlers that store uploads, the files, the volume | `MCUploads` |
| `UploadsInv`, `UploadsProofs` | its inductive invariant, next to that of `JobManager`, and the proofs | - |
| `DatasetPersistence` | files, store, crash and restart, migration, queries' view of files | `MCDatasetPersistence` |
| `DatasetPersistenceInv`, `DatasetPersistenceProofs` | its inductive invariant and the proofs | - |
| `Dialect` | what the sniffer makes of the first bytes of a file | through `Ingestion` |
| `Proposer` | which dependencies the profiler reports, and the heuristic proposer | through `Ingestion` |
| `SemanticModel` | how roles proposed for columns become a model: tests, refutation, discovery, measures | through `Ingestion` and `Conversation` |
| `Ingestion` | an ingest from bytes to semantic model | `MCIngestion` |
| `IngestionInv`, `IngestionProofs` | its inductive invariant and the proofs, with what the recursive functions of `Dialect` and `Proposer` compute | `MCIngestion` checks the properties |
| `Binder` | the verdict on a plan, given a model | through `Conversation` |
| `Executor` | what a bound plan reads, what the executor cannot run, what the answer discloses | through `Conversation` |
| `ExecutorProofs` | theorems about `SemanticModel`, `Binder` and `Executor`, for every model and plan | - |
| `Conversation` | a question and its follow-ups, through interpreter, merge, binder and executor | `MCConversation` |
| `ConversationInv`, `ConversationProofs` | its inductive invariant and the proofs | - |
| `Periods` | comparisons of periods and rolling windows, over rows | `MCPeriods` |
| `PeriodsInv`, `PeriodsProofs` | its inductive invariant and the proofs | `MCPeriods` checks the properties |

### JobManager

The state is that of the code: per job its kind, dataset, state, events, error,
result, `done` and cancel flag; the idempotency map; per lock its holder and
its FIFO of waiters; the store's entry per dataset. To it come the loop's FIFO
of scheduled callbacks (`ready`), the executor's FIFO of submitted work
(`pool`), and per job how far its work is (`worker`, `at`, `outcome`).

An action is what runs without another thread being able to look: `SubmitIngest`
and `SubmitQuery` (an async handler between two awaits), `StartIngest`,
`StartQuery`, `AcquireLock` (a task's callback up to its next await), `Publish`,
`Resume` (the return of `to_thread`). `_run` assigns result, store entry, state
and error one after the other, and a handler's thread may look in between, so
these are the separate steps `SetResult`, `RegisterDataset`, `SetState`,
`SetError`, `Finish`; no other callback runs between them (`loop`). A worker
thread takes `PassBoundary`, `StopAtBoundary`, `WorkFails` or `WorkReturns`.
`Cancel` may come at any time; its look at the state and its setting of the flag
are one step, as the flag of a job that ends in between is read by nobody. `asyncio.Lock` is modelled as it works: release
wakes the first waiter by a callback, the lock stays free until that callback
runs, and a newcomer queues while anybody is queued.

The idempotency key stands for the digest and the name of an upload, a job
number for its uuid. What a stage computes is left out: between two boundaries
a pipeline touches no state of this layer.

### JobStream, JobPoll, JobClients

`JobStream` adds generators of `JobManager.stream`: `Open` (subscribe, snapshot
the history), `ReplayHistory` (one `yield`), `EndHistory`, `FollowLive` (one
turn of the live loop), `Disconnect` (the client goes) and `Finalise` (the
`finally` clause runs later). `Publish` and `Finish` become `PublishToAll` and
`FinishForAll`, which also fill the subscribers' queues.
`JobPoll` adds threads that read a record in the order `_Job.view` does.
`JobClients` lets both kinds of client watch the same job. Its histories
`toldBefore` and `told` say whether a poll was sent after some stream's done
frame, which is what the page does: `ViewsAreComplete` states that such a poll
finds the job as the frame left it. A poll that is not preceded by a done frame
may see a failed job that has no error yet (`state` is assigned before `error`,
`manager.py:258-262`); the next poll has it.

### Uploads

`create_dataset` does not suspend itself after it has read the body, so to the
loop it is one callback; but worker threads run meanwhile, and it opens, fills
and submits a file in three steps (`OpenFile`, `WriteFile` or `WriteFails`,
`SubmitUpload`; `Admit` is the guards, `LoadSample` the handler of the
samples). A worker reads its file during three stages, and `torn` marks one
that reads while the file is empty. `Used` counts uploads, staging files and
promoted files, a unit of space each; `Starve` is a load that finds none left.
Two histories, `rewriters` and `crowded`, record what an ingest was exposed to:
the properties say that it comes to harm only from these. `replies` records
what the handlers answered. One file may serve two datasets, as it is named by
its digest: two uploads of one content under two names share it without
sharing a lock.

### DatasetPersistence

Per dataset: the staging file, the canonical file, the sidecar and the store's
entry, each a build of some content. `StartIngest`, `Build`, `Abort`,
`Promote`, `WriteSidecar` and `Register` are the steps of `run_ingest` and
`_register_dataset` that touch them; `SubmitQuery`, `OpenData`, `EndQuery` those
of a query; `Crash` and `RemoveFile` come from outside; `Restart`, `Load` and
`Serve` are `create_app` and `load_persisted` with the identity check and the
migration. That ingests of one dataset do not overlap is what `JobManager`
establishes (`IngestsSerialised`).

### Dialect, Proposer, Ingestion

`Dialect` works on bytes: `LastRecordBoundary`, `DetectEncoding`, `Ragged` are
the functions of `dialect.py`, `Widths` is what `csv.reader` finds, and `Valid`
a reference for what any reader of CSV accepts. `Proposer` has the decisions of
`_functional_dependencies` (what is grouped by, what is reported) and of
`propose_heuristically`, rule by rule; the statistics of a column are data of
the file. `Ingestion` composes them with `SemanticModel`: `Sniff`, `Load`,
`ComputeProfile`, `ResolveDates`, `Propose`, `Build` are the stages of `ingest`
and `build_semantic_model`, each with its failures. External choices are the
typing DuckDB infers for dates (`Readings`), the rows that are sampled, whether
`csv.Sniffer` finds a delimiter, and the claims of the language model.

### SemanticModel, Binder, Executor

These hold no state: they are operators over abstract data. A file is what the
program can find out about it: the claims made about its columns, by descending
confidence, and an evidence record that says which tests would pass and which
structure would be found. `Built` is `build_semantic_model` on it. A plan is
the query IR reduced to what the verdict depends on; `Objections` lists the
checks of `bind` in its order and the first one raised decides. `Reads`,
`Faults` and `Disclosures` say of a bound plan which columns its SQL names, why
it would raise, and what the answer states. SQL text, numbers, wording and
the grains of time are abstracted.

### Conversation

The state is the file each dataset has and the turns so far. A turn captures
its dataset's model and the plan of the earlier turn when it is submitted
(`Ask`, `FollowUp`: `query_dataset` and `submit_query`), so what it does later,
`Finish`, depends on nothing else: `Decline`, `Answer`, `AskForPeriods`,
`ExecutionFails`, `InterpretationFails` are the ways out of `run_query`. A
follow-up may start from any turn that has a result, also from one about
another dataset; a dataset replaced by a re-ingest is, for the turns that
captured the old model, another dataset. `Merge` is `merge_ir` field by field. `Answer` chooses outside which
partitions the data have other lines with revenue (`lines`); the answer itself knows
only what its disclosure query looked at.
Which columns a plan needs is thus decided three times, by the model it was
interpreted for, by the binder, and by the SQL, and the properties relate them.

### Periods

A table is a set of rows with a time or none, a group, a value and the completeness
flag. A window has the last n units (`Rolling`), a named period, a start and an
end (`Within`), each or none. `ResolvePeriods` and `NeedsClarification` are `_resolve_periods`,
`RankGroups` is `_period_comparison_sql` (ties and groups without a value in
any order SQL allows), `Disclose` is the base and window disclosures, which
come from queries of their own. `Scope` is the one `_where` that all of them
use. Calendars are regular: every month as long as every other.

## What is checked

| run | module, configuration | properties | shows |
|---|---|---|---|
| `jobs` | `MCJobManager`, `Jobs.cfg` | `TypeOK`, `ManagerInv`, `IngestsSerialised`, `OneJobPerKey`, `HistoryComplete`, `OutcomeShaped`, `TerminalIsFinal` | Three jobs under three keys on one dataset, with queries and cancels: the per-dataset lock serialises ingests, a key is never ingested twice, ingests begin in order and the newest one is served, a finished job is complete, shaped and final, and the invariant the proofs use holds. |
| `jobs_liveness` | `MCJobManager`, `JobsLiveness.cfg` | `EveryJobFinishes`, `CancelStopsAtNextBoundary`, `ImplementsFairPromise` | With one worker thread and three jobs every job finishes, also one that waits for the lock or for the thread, a cancel before the last boundary is never overtaken by success, and the manager implements DatasetJobs with its fairness. |
| `clients` | `MCJobClients`, `JobClients.cfg` | `ClientTypeOK`, `ReceivedIsPrefix`, `ClosedIsComplete`, `OnlyReadersSubscribed`, `ViewsAreComplete`, `PollsMoveForward`, `StreamsEnd` | Two SSE readers, opened at any moment, and a polling thread that reads a job's record field by field, of which two act: each reader receives every event once, in order, ends when its job is over and gives its queue back; polls never go back; and what a poll says after a stream's done frame agrees with the frame. |
| `persistence` | `MCDatasetPersistence`, `DatasetPersistence.cfg` | `TypeOK`, `OnlyWholeDataVisible`, `ModelNotAheadOfData`, `QuietModelFitsData`, `ServedIsPersisted` | Ingests, queries, crashes, restarts, migrations and failing sidecar writes of one dataset with three possible files. |
| `conversation` | `MCConversation`, `Conversation.cfg` | `ConversationTypeOK`, `SoundReads`, `GapsAreOfThisTurn`, `RevenueProvenance`, `ProductScopeStated`, `FailuresAreExplained` | A question and up to two follow-ups, which may start from either earlier turn and change the dataset, over seven files with sound, refuted, competing, unchecked and missing columns, whose lines none, one or two dimensions split: what an answer reads, what it says and of which lines, and why it may fail. |
| `uploads` | `MCUploads`, `Uploads.cfg` | `UploadTypeOK`, `CutOnlyByRewrite`, `ReplyNamesContent`, `StaleOnlyAfterReplacement`, `LoneIngestFits` | Uploads with equal and different contents, names and idempotency headers, and a sample, on volumes of several sizes: which ingest reads which file, what the answer of a retried upload names, and when an admitted upload finds no space. |
| `ingestion` | `MCIngestion`, `Ingestion.cfg` | `ValidFilesLoad`, `DatesReadAsStated`, `PeriodsAgree`, `MeasuresAreMeasures` | An ingest from the file's bytes to its semantic model, over short texts, dates written in every way, and many tables of up to four columns: what is refused, how dates are read and when what is said of them is so, and which columns the heuristic lets a measure sum. |
| `periods` | `MCPeriods`, `Periods.cfg` | `PeriodsCompared`, `RankingAccounted`, `WindowClaimHolds` | Questions with a comparison of periods or a window over many small tables, some of whose rows have no time: which periods are compared, which groups are ranked, what the answer says of bases, and which rows a window said to be the whole dataset leaves out. |

Runs that must find a violation, because the code does not do what its text says:

- `rehydrated_model` (`PersistenceRehydrate.cfg`): `RehydratedModelIsRight`. A crash between promotion and the sidecar write lets a restart register the model of the previous file.
- `query_during_reingest` (`PersistenceQuery.cfg`): `QueryRunsOnItsModelsData`. A query submitted before a promotion and executed after it runs its plan on the new file.
- `guessed_revenue` (`IngestionRevenue.cfg`): `RevenueIsForced`. The heuristic proposes a rate among two decimals that no identity confirms, and revenue is computed from it.
- `backwards_comparison` (`PeriodsBase.cfg`): `BaseIsEarlier`. A question that names only the later period is answered with a base after it.

Every property of a passing run has a mutant: a definition with a plausible
bug, kept beside the original under a comment `Mutant of ...`, with which TLC
finds the property violated.

## Bounds

Jobs: three are needed for a holder, a waiter and a newcomer of one lock; two
workers for two ingests to run at once, one worker for them to compete. The
loop's backlog is capped by `MaxReady` in `PassBoundary` only: a worker waits
until the loop has caught up, every other action may exceed it, so that an
event can be pending while its worker returns. The instances with three jobs
use pipelines with two boundaries: the job layer distinguishes only the
positions before the first boundary, between two, and after the last. `clients`
has one job, two readers and one poller, of which any two act (`MaxActive`):
the clients do not touch one another, so a third adds nothing to a pair.
`uploads` has two jobs and three admitted requests (`MaxRequests`): an ingest,
another that replaces it or competes with it, and a retry; its volumes
(`Capacities`) have room for one table beside its upload and for two, or for
one only, and the guard's `Floor` is one table (with `min_free_bytes` 0
there is no guard, and `LoneIngestFits` says nothing). Persistence: two builds and two crashes
allow a crash in a re-ingest, a restart, and a crash again; the three contents
differ in rows, in columns, or in nothing the identity check can see.

`conversation`: three turns allow a follow-up of a follow-up and two
follow-ups of one turn; the seven files have a verified amount, an amount that
fails the identity, competing amounts, an amount in text that nothing can check, a
refuted price with a refuted transaction key, no product, and no usable time, with
returns marked by a flag, a category, a key prefix or not at all, and product lines
split off by one dimension, by two of which one came to it by a second flag, or by
none that has a single value for them; the questions
reach every path and every objection of the binder that depends on the model.
Questions that start from nothing share no state, so one per conversation is
enough. Re-using a plan on another dataset needs two datasets, of which one
ranges over all files.

`ingestion`: `SampleBytes` is five bytes and texts about quotes have up to
seven (`TextLength`), so a sample ends before, in and after a quoted field, a
doubled quote and a line break; texts about characters have six (`WordLength`).
Columns of dates mix up to three of fifteen values, among them 12 and 13 in
either place and an impossible one, common or rare. Tables have the time and up
to three of ten columns (`TableColumns`) in two orders, with a budget of three
determinants (`MaxDeterminants`) that bites for four; a file varies one of text,
dates and table and keeps the others plain.

`periods`: tables of up to three rows (`MaxRows`) for the questions about which
periods and which window, some without a time, three groups with two months each for the ranking,
with a missing, negative, zero, small and large value in each; days, months and
quarters of sixteen time units, and a completeness flag for months.

## Fairness

`FairSpec` assumes that the loop goes on serving its queue, that the executor
goes on taking work, and that work that runs ends. The first two are what
asyncio and `ThreadPoolExecutor` provide. The third holds because SQL over a
finite file ends and because calls to a provider are limited in time: the
ambient provider's by its own `asyncio.wait_for` (`provider/ambient.py`), the
API-key provider's by the client library it uses. `ClientSpec` also assumes
that the loop resumes generators whose client reads. Nothing is assumed of
clients: they need not cancel, poll or disconnect.

## What is proved

For any number of jobs, keys, datasets, threads, streams, pollers, uploads, builds, crashes and turns, and any pipelines, files, plans and tables:

| theorem | states | about |
|---|---|---|
| `Invariant` (`JobManagerProofs`) | `-` | In every reachable state the loop's queue, the executor's queue, the locks and the job records fit one another. |
| `TypeCorrect` (`JobManagerProofs`) | `TypeOK` | The job manager's state is always well-typed. |
| `Serialisation` (`JobManagerProofs`) | `IngestsSerialised` | No two ingests of one dataset are ever in progress together, for any number of jobs and threads. |
| `Finality` (`JobManagerProofs`) | `TerminalIsFinal` | A job that ended keeps its state, events, error and result. |
| `Idempotency` (`JobManagerProofs`) | `OneJobPerKey` | Of the jobs created under one key at most one is live or succeeded. |
| `Shape` (`JobManagerProofs`) | `OutcomeShaped` | A finished job carries a result exactly when it succeeded and a shaped error exactly when it did not. |
| `History` (`JobManagerProofs`) | `HistoryComplete` | When a job is done, every event its worker emitted has been published in order and nothing of it is left on the loop. |
| `Cancellation` (`JobManagerProofs`) | `CancelStopsAtNextBoundary` | A job whose cancel is acknowledged while its worker has a boundary ahead never succeeds, whatever the interleaving of cancel, worker and loop. |
| `ClientsOnlyObserve` (`JobClientsProofs`) | `-` | Streams and polls change nothing of the job manager: every behaviour with clients is one of JobManager's, so its theorems hold with them. |
| `ClientTypeCorrect` (`JobClientsProofs`) | `ClientTypeOK` | The state of streams and pollers is always well-typed. |
| `DeliveredInOrder` (`JobClientsProofs`) | `ReceivedIsPrefix` | What a stream's client has received is at any time how the job's history begins, wherever the stream was opened. |
| `CompleteStreams` (`JobClientsProofs`) | `ClosedIsComplete` | A stream that ends by itself has delivered the whole history, and its done frame the state the job ended in. |
| `QueuesGivenBack` (`JobClientsProofs`) | `OnlyReadersSubscribed` | Exactly the generators that may still read are subscribed, however streams end. |
| `ForwardPolls` (`JobClientsProofs`) | `PollsMoveForward` | Successive polls of one client never go back, although each reads the record field by field while the loop ends the job. |
| `CompleteViews` (`JobClientsProofs`) | `ViewsAreComplete` | A view that says succeeded is complete, and a poll sent after a done frame finds the final record. |
| `ManagerInvariant` (`JobManagerProofs`) | `ManagerInv` | The ingests of a dataset begin in the order of submission, each when the one before has ended, and what is served is never older than the last one that succeeded. |
| `Refinement` (`JobManagerProofs`) | `-` | The job manager implements DatasetJobs, step by step, as far as safety goes: its initial states and steps map to those of the abstract specification or to no step. |
| `UploadsManaged` (`UploadsProofs`) | `-` | The upload path is a job manager: every behaviour of it is one of JobManager's, so its theorems hold there. |
| `UploadsInductive` (`UploadsProofs`) | `-` | What the handler has checked and written, whose the files, keys and answers are, and the space left fit one another in every reachable state. |
| `UploadTypes` (`UploadsProofs`) | `UploadTypeOK` | The state of the upload path is always well-typed. |
| `CutOnlyBySameBytes` (`UploadsProofs`) | `CutOnlyByRewrite` | A dataset is built from less than its upload only when another upload of the same bytes emptied the file meanwhile. |
| `AnswersNameContent` (`UploadsProofs`) | `ReplyNamesContent` | The answer to an upload names a job that ingests this content into this dataset, unless the client re-uses a key of its own. |
| `StaleAnswers` (`UploadsProofs`) | `StaleOnlyAfterReplacement` | An answer names a replaced ingest only when a later ingest of the dataset succeeded; it rests on NewestServed of the manager. |
| `LoneUploadFits` (`UploadsProofs`) | `LoneIngestFits` | An upload that the free-space guard admits finds the space for its table when no other is handled at the same time, on a volume of any size. |
| `PersistenceInvariant` (`DatasetPersistenceProofs`) | `-` | Files, sidecars, store, ingests and queries fit one another in every state, whatever crashes, fails or is removed. |
| `PersistenceTypeCorrect` (`DatasetPersistenceProofs`) | `TypeOK` | The state of files, sidecars, store, ingests and queries is always well-typed. |
| `WholeData` (`DatasetPersistenceProofs`) | `OnlyWholeDataVisible` | No half-built file reaches the canonical path, every registered dataset has data, and staging files belong to ingests or crashes. |
| `UnderstandingFollowsData` (`DatasetPersistenceProofs`) | `ModelNotAheadOfData` | Neither the persisted nor the registered model is ever newer than the data. |
| `QuietModels` (`DatasetPersistenceProofs`) | `QuietModelFitsData` | Outside a promotion, what is registered fits the file as far as the identity check goes. |
| `ServedPersists` (`DatasetPersistenceProofs`) | `ServedIsPersisted` | A served dataset whose sidecar write did not fail is what a restart would find. |
| `BuiltCoherent` (`ExecutorProofs`) | `-` | Every model built from claims and evidence is coherent: what is derived from a role reads a column that is bound to it and was not refuted. |
| `ReadsBound` (`ExecutorProofs`) | `-` | The SQL of any plan the binder admits for a coherent model reads bound columns that no test refuted, but for generic aggregations. |
| `ColumnsExist` (`ExecutorProofs`) | `-` | No plan the binder admits names a column that the table lacks. |
| `CheckedRevenueSums` (`ExecutorProofs`) | `-` | Of any model the builder can make, revenue that is not said to be as reported is summed over numbers: the tests that confirm or derive it see to that. |
| `ReportedRevenue` (`ExecutorProofs`) | `-` | Of an admitted revenue, "as reported" is said exactly when nothing checked the amount it is summed over. |
| `ConversationInvariant` (`ConversationProofs`) | `-` | What a turn carries and how it ended fit the binder and the executor, and a follow-up that changes nothing carries a note of a clarification. |
| `ConversationTypes` (`ConversationProofs`) | `ConversationTypeOK` | A conversation is always well-typed, and a follow-up starts from an earlier turn that has a result. |
| `AnswersReadSoundly` (`ConversationProofs`) | `SoundReads` | No answer reads a column that its model does not bind or that a test refuted, for any corpus, any plans and chains of follow-ups of any length. |
| `GapsStayWithTheirTurn` (`ConversationProofs`) | `GapsAreOfThisTurn` | Gaps stop the turn they were found in and no other, and a follow-up that changes nothing is never answered. |
| `RevenueIsAsReported` (`ConversationProofs`) | `RevenueProvenance` | An answered revenue is said to be as reported just when no test confirmed the amount it is summed over. |
| `ProductScopeIsStated` (`ConversationProofs`) | `ProductScopeStated` | A ranking of products keeps to the product lines of every single-valued partition and says so of each; another revenue of a standard query says what lies outside the first of them just when something does, and nothing of the others. |
| `FailuresHaveReasons` (`ConversationProofs`) | `FailuresAreExplained` | When the execution of an admitted plan fails, no column name is wrong, only a ranking by share has no order, only distinct counts lack a measure, and only an amount reported as it stands cannot be summed. |
| `PeriodsInductive` (`PeriodsProofs`) | `-` | What a comparison has resolved, ranked and disclosed so far follows from its question and table. |
| `ComparedPeriods` (`PeriodsProofs`) | `PeriodsCompared` | For any table, a comparison is of two periods it has rows for, the named ones or the latest two, and cuts neither where the completeness flag is exact. |
| `RankingDisclosed` (`PeriodsProofs`) | `RankingAccounted` | For any values, positive or negative, a group in both periods is ranked or said not to be, and no group without a rank displaces one with. |
| `WindowClaims` (`PeriodsProofs`) | `WindowClaimHolds` | For any times, also none, and any other bounds: of a window said to be the whole dataset, the rolling bound leaves out rows of the first day or without a time only, and of one not said to be so it leaves out something. |
| `IngestionInductive` (`IngestionProofs`) | `-` | What an ingest knows of encoding, dates, proposer and model follows from its file, and its refusals have reasons. |
| `ReadableFilesLoad` (`IngestionProofs`) | `ValidFilesLoad` | However long the file and wherever the sample cuts it, no file that can be read is refused as ragged, empty or undecodable, and none because of what the heuristic proposed. |
| `StatedOrders` (`IngestionProofs`) | `DatesReadAsStated` | For any dates, an order that answers state as settled is the one read in, but for text that is ISO but for a few dates; under the one they state as assumed nothing is read, and what is read instead is said. |
| `SlicesArePeriods` (`IngestionProofs`) | `PeriodsAgree` | For any table, what the heuristic sets aside as a slice of the event time is, where the dependency is strong enough for one, a period of the model it leads to, whose event time is the heuristic's. |
| `MeasuresOnly` (`IngestionProofs`) | `MeasuresAreMeasures` | For any table, nothing is summed that is the transaction key or that the profile shows to follow from the event time and not to determine it. |

The theorems rest on the named assumptions of their modules only; TLC evaluates
these on every run.

**`JobManager`** (`ConstantsAssumption`). The type invariant is not enough for
any of its theorems: that two ingests of one dataset are not both running follows from
`OwnerInv` (an ingest owns its lock while it runs), and that one is only
preserved because a woken waiter is still the first of its queue and its lock
still free when its callback runs (`CallbackOK`), which in turn needs that no
job has two callbacks scheduled other than publications (`ReadyOrder`), that
queues hold no job twice (`WaitersInv`, `PoolInv`), and that record, worker and
loop agree on how far a job is (`RecordInv`, `LoopInv`). Their conjunction is
`IInv`, inductive relative to `TypeOK`. `Idempotency` adds `KeyInv` and `Shape`
adds `OutcomeInv`, each inductive relative to `IInv`; `Finality` is an action
property that follows from `IInv` step by step. `History` adds `HistoryInv`:
the boundary a worker passed last is the last event published or, while
publications of the job are scheduled, the last of those. `Cancellation` is a box
within a box: a job whose cancel was acknowledged before its worker's last boundary
is `Doomed`, every step keeps it so, and by `OutcomeInv` a doomed job is in no
state that says it succeeded.

`Refinement` maps a job's phase to its state, a requested cancel to its flag and
what is published to the store. Most steps map to none. The hard step is the
first of an ingest: `DatasetJobs` lets it begin only when every earlier ingest
of its dataset has ended, and the manager looks at nothing but its lock. So
`TurnInv` says that the first steps of tasks are on the loop in the order of
submission, that every lock's queue is in that order and before the jobs that
have still to start, and that every queued job is in one of the two; a job that
finds the lock free and its queue empty, or is woken as the first of it, then has
nobody before it that has not ended (`EarlierEnded`). `StoreInv` says that an
ingest that is about to be declared succeeded is what the store holds. Of the
refinement follow `InOrder` and, with `StoreInv`, `NewestServed`; with `IInv` they
are `ManagerInv`, which the run `jobs` checks.

**`JobClients`.** A step of a client leaves the job manager's variables alone
(`ClientsOnlyObserve`), so `IInv` and `OutcomeInv` hold there too. What a client
has received is how the history begins only because of what its queue holds,
so `StreamInv` says that the replayed snapshot and then the queue, tick by tick,
are exactly the rest of the history, followed by the sentinel once the job is
done (`ReaderInv`, `Replays`, `Follows`), and that exactly the readers are
subscribed. `PollInv` says that every field a poller has read is still true of
the record (`StillTrue`) and not behind its last answer (`Overtakes`); it is kept
because a record only grows (`RecordSteps`). `ViewInv` says that what is read of
a job whose outcome is known is its final record, kept because such a record
does not change (`SettledSteps`). `StreamInv`, `PollInv` and `ViewInv` are
inductive relative to the job manager's invariants.

**`Uploads`** (`ConstantsAssumption`, `UploadsAssumption`: requests have names and
keys the manager knows, a client's own key is not one the server derives, samples
are not uploaded files, and a pipeline that has loaded its table does not load it
again). `UploadsManaged` shows that each step is one of `JobManager` or none, so
`IInv` and `NewestServed` are there to use. On them rest `HandlerInv` (the loop
does nothing else while a handler is in the middle of an upload), `FilesInv` (a
live ingest's file is whole unless it has a rewriter), `RewriteInv`, `OriginInv`
(a key is that of its job's request), `ReplyInv` and `SpaceInv`. The last one is
what `LoneIngestFits` needs: between the guard and the write there is room for
file and floor (`HandlerBudget`), from then until the table is loaded for the
floor (`LoneBudget`), as long as no other job is live; finite sets of files,
staged tables and promoted files are counted one by one. `StaleAnswers` is the
one that needs the job layer most: that a finished ingest's dataset serves other
content only because of a later one is `NewestServed`.

**`DatasetPersistence`** (`ContentAssumption`). The properties speak of files and
records at one moment, and are only kept because of where an ingest is
(`IngestOK`: its build is the staging file until the promotion and the canonical
one after it, and newer than whatever was there), because no record is of a build
newer than the data (`FilesOK`), and because what is registered passed the
identity check or was promoted in this process (`StoreOK`).

**`SemanticModel`, `Binder`, `Executor`** (no state). `BuiltCoherent` shows for
every list of claims and every evidence that a built model is coherent: each role,
measure, partition and label rests on bindings that were not refuted.
`ReadsBound`, `ColumnsExist` and `ReportedRevenue` are about any coherent model
and any plan for which no objection was raised. `CheckedRevenueSums` goes back to the
tests: what is derived from quantity and rate, or confirmed by their product, was
found to be numbers (`TestedFacts`), so that only an unchecked amount can be text.

**`Conversation`** (`ConversationAssumption`: the files are ones a model can be
built of, and plans have the fields of `QueryIR`). `TurnsInv` says of every turn
what it carries (`Carried`), that its end is what binder and executor found
(`Justified`), and that the plan of a follow-up that changes nothing carries a note
of a clarification (`Linked`). Because a turn captured its model when it was
submitted, none of it is disturbed by other turns or a re-ingest, and the theorems
of `ExecutorProofs` then give the properties for chains of any length.

**`Periods`** (`PeriodsAssumption`, `CasesAssumption`: tables are finite and not
empty, times natural numbers or NULL, values integers of either sign). `PeriodsInvariant`
says that a comparison is of the periods that were resolved from the question's
scope (`Chosen`), that no group left out is ahead of one that ships (`Shipped`),
and that the answer says what holds of the rows (`Said`). Steps preserve it because
what is derived from the question alone stays while it does (`QuestionFrame`,
`PeriodsFrame`). The rest is about numbers: that a finite set of them has a
greatest and a least, and that a sum over a finite set exists, follow from a
smallest subset without one (`LeastSubset`); `CoarserPeriod` says that a period of
the flag's grain is made of whole periods of any grain that divides it.

**`Ingestion`** (`SampleAssumption`, `DeterminantsAssumption`, `FilesAssumption`:
columns have names of their own, and the dependencies are finitely many and between
them). `IngestionInvariant` says what encoding, dates and model follow from the file
(`Encoded`, `DatesRead`, `ModelBuilt`) and which refusals are left (`Refusals`).
The work is in what `csv.reader`, a filter and a stable sort compute, each a
recursive function or a `CHOOSE`. A set of lengths that has 0 and with `n` always
`n + 1` has every length up to the last (`Throughout`); so a reader's records only
grow as it reads on (`RecordsStay`), the parity of quotes tells whether a newline
of a proper file ends a record (`ReadFacts`, `WholeRecords`), and a sample that is
cut at such a newline is as wide as the file (`SampleFacts`). `KeptFacts` and
`DescendingFacts` say that a filter keeps the elements of a set and a sort is a
permutation that keeps the order of equal keys; the latter counts how many elements
are before each (`RankFacts`). `ByRuleFacts` and `HeuristicFacts` then say what the
heuristic may claim (`Claimable`) and that the event time it reasons with is its
first claim, and so the first binding of the model (`EventTimeBound`).

Proving showed where the model or a property was wrong. `PeriodsCompared` had
spoken of the flag as if it were the same within a month, which is only required of
99 rows in 100. A disclosure of other lines is of the
first partition only if the partitions are in an order (`FirstPartition`);
`StaleOnlyAfterReplacement` is not so of datasets with the empty id, whose ingests
share no lock and are in no order; and several `CASE`s had arms that overlap where
the code has an order.

## What the code does other than it says

- `jobs/store.py:122` (`rehydrated_model`): A crash (or a swallowed OSError) between promote and write_sidecar leaves the new data beside the old sidecar; if both files have as many rows and the bound columns, the identity check accepts the old model. The comment says the check makes sure that a rebuilt table "cannot rehydrate a model that is silently wrong about the data" (jobs/store.py:271-273).
- `jobs/pipeline.py:213` (`query_during_reingest`): A query captures its Dataset at submission and opens the canonical path only when it executes; a promotion in between makes it run a plan bound to the old model on the new file. The module says a query during a re-ingest "reads the previous promoted file" (jobs/manager.py:9).
- `semantic/heuristic.py:153` (`guessed_revenue`): With two decimals and a quantity the heuristic claims the first as the rate; when the identity refutes the second as the amount, the rate stays bound and build_measures derives revenue as quantity x rate (measures.py:62-65). DESIGN.md says that the heuristic "commits a money role only when the choice is forced (a single decimal) or the stored-amount identity (`amount == quantity × rate`) confirms the triple downstream; otherwise it leaves rate/amount unbound and a revenue question REFUSES" (src/DESIGN.md:347-349).
- `executor/execute.py:417` (`backwards_comparison`): When only the later period is named, the code takes the last available period other than it, which lies after it unless it is the last; the growth is then that from the later to the earlier one. The comment says "only the later period named → earlier = most recent distinct before it" (executor/execute.py:409).

Met while modelling, and part of the models without a run of their own:

- Two uploads whose names have no usable character share the staging file
  `.duckdb` without sharing a lock (`jobs/manager.py:155` against `:153-154`);
  `IngestsSerialised` is about other names.
- The binder admits plans that the executor cannot run, such as a ranking by
  `share` (`bind.py:345`, `compile.py:142`) or a comparison without a measure
  (`execute.py:427`); a sum over an amount in text that no test looked at
  (`measures.py:66-73`), a bound of a window that is no date (`compile.py:85-88`)
  and a flag of returns that is no number (`measures.py:23`) may fail too, as the
  data have it. They end as `query_failed`. `FailuresAreExplained` says which
  plans can fail in which of these ways.
- A follow-up inherits the notes of the plan it starts from (`merge.py:46`),
  although notes are to be "regenerated, not inherited literally"
  (`merge.py:17-18`). So one that changed nothing makes the binder ask what to
  change of all that follow it, also of those that do change something, while the
  question is meant for "a follow-up that changed nothing" (`bind.py:364`).
  `GapsAreOfThisTurn` claims the converse only: one that changed nothing is not
  answered.
- A follow-up that brings only aggregations is taken to change nothing, as they
  are not among the fields it may override (`merge.py:19-31`).
- An event time whose order of day and month nothing settles is said to be
  "assumed day-first" (`build.py:47-50`), and nothing assumes it: there is no
  format for such a column, so its dates are read as DuckDB typed them, which may
  be month first, or stay text and are read as ISO. `DatesReadAsStated` says so.
- An answer is to state "exactly what non-product money it contains"
  (`execute.py:603`). Of several dimensions that split off the product lines,
  only the first is looked at (`execute.py:612-617`): of the lines outside
  another one nothing is said, even if there are none outside the first. Lines
  whose dimension is NULL are never counted. `ProductScopeStated` speaks of the
  first only where it claims a disclosure.
- "This is the whole dataset" is said of a window by its last n units alone
  (`execute.py:587-591`), while the window may have a named period, a start and an
  end besides, and no row without a time is in it (`compile.py:75-96`).
  `WindowClaimHolds` lists the rows that are left out in spite of the claim.
- A basket that also asks for a share of the total has one computed for its
  first measure, which its rows do not have: every share is 0 or missing
  (`execute.py:97-101`).
- A revenue on the frequency or comparison path is not accompanied by what the
  other lines contribute (`execute.py:180-184`); `ProductScopeStated` is about
  the standard path and about rankings of products.
- A ranking by `change` says of groups with a negative base that they are not
  ranked, while it ranks them (`execute.py:447`, `:544`); `RankingAccounted`
  states both.
- A completeness flag for months leaves rows of an open month out of a quarter
  and compares the rest of it (`bind.py:461`), and a flag that is taken for one
  although it differs within a month, in up to one row in a hundred
  (`verifiers.py:427`), leaves out part of that month; `PeriodsCompared` is about
  grains the flag's periods are made of and a flag that is exact.

## Only model-checked, not proved

- Liveness: `EveryJobFinishes`, `StreamsEnd`, and the refinement of
  `DatasetJobs` with its fairness (`ImplementsFairPromise`; without fairness it
  is proved). Fairness rests on `ENABLED`, which the prover does not handle.
- What TLC evaluates and no proof needs: that the assumptions on the constants
  hold of the instances.

The inductive invariants `PersistenceInv`, `TurnsInv`, `UploadsInvariant`,
`PeriodsInvariant` and `IngestionInvariant` are no properties of a run, as the theorems say more; TLC finds
no violation of them on the instances of the runs `persistence`, `conversation`,
`uploads`, `periods` and `ingestion` either.

## Not modelled

- LLM providers (`provider/`): external services. The job layer sees a stage
  that returns or raises.
- Redaction (`redact.py`): string rewriting when a response is serialised.
- `eval/`, `cli.py`: offline tools. `api/static`: a client.
- Growth of the maps that are never emptied, and of stream queues: every
  checked instance is bounded.
- A graceful shutdown of the server with jobs in flight: it is a `Crash` here.
- What SQL computes, except in `Periods`: values, coverage, the statistics
  behind a profile or a verifier. They are data, evidence or a choice here.
- Files with a byte-order mark, dates with separators no format covers, and
  weeks, whose labels split at the turn of a year.
- The wording of verdicts and the caveats about coverage and degenerate results.
- DuckDB's cache of open instances of one file.

## Plan

Done: the job layer with streams, polls and uploads, persistence, ingestion
from bytes to a semantic model, the path from a question to an answer, and the
comparison of periods; proofs of every safety property the runs check.
Next:

1. An abstract specification of an answer (what a question may be answered
   from, and what must be said) refined by `Conversation`.
2. Shares of a total, frequencies and baskets over rows, beside `Periods`.
3. The migration of old sidecars as a source of models for `Conversation`: that
   nothing derived rests on a refuted role there either (`BuiltCoherent` is
   about models that are built).
