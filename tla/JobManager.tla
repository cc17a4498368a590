----------------------------- MODULE JobManager -----------------------------
(***************************************************************************)
(* The job manager: asynchronous submit and cancel over the synchronous    *)
(* pipelines.                                                              *)
(*                                                                         *)
(* Three kinds of threads act.  The event loop runs one callback at a      *)
(* time, in the order they were scheduled: the first step of a job's task, *)
(* the wake-up of a task that waited for a lock, the publication of a      *)
(* progress event, the return of a task's worker.  The threads of the      *)
(* default executor run the pipelines.  The threads that serve the         *)
(* synchronous HTTP handlers call cancel.  They share the job records, so  *)
(* the assignments that end a job are separate steps here: another thread  *)
(* may look between any two of them.                                       *)
(***************************************************************************)
EXTENDS Naturals, Sequences, FiniteSets

CONSTANTS
    MaxJobs,     \* bound: how many jobs are ever submitted
    Keys,        \* idempotency keys
    Datasets,    \* non-empty dataset ids
    EmptyId,     \* the id _dataset_id returns for a name with no usable character
    Requests,    \* the <<key, dataset id>> pairs clients upload under
    MaxWorkers,  \* threads of the default executor
    MaxReady,    \* bound: how many callbacks a worker lets pile up on the loop
    Stages,      \* the stage names pipelines announce
    NextStages,  \* kind -> position -> the stages that may be announced next
    ReturnsFrom, \* kind -> the positions from which the pipeline returns
    ErrorCodes   \* kind -> the codes of the errors the pipeline raises

Ids == Datasets \cup {EmptyId}

\* Jobs are numbered in the order of their submission; the number stands for
\* the uuid the code draws.
Jobs == 1..MaxJobs
NoJob == 0
JobOrNone == 0..MaxJobs

Kinds == {"ingest", "query"}                              \* JobKind
Positions == Stages \cup {"enter"}

ASSUME ConstantsAssumption ==
    /\ MaxJobs \in Nat
    /\ MaxWorkers \in Nat \ {0}
    /\ MaxReady \in Nat \ {0}
    /\ EmptyId \notin Datasets
    /\ Ids \cap Jobs = {}
    /\ Requests \subseteq Keys \X Ids
    /\ "enter" \notin Stages
    /\ \A k \in Kinds : ReturnsFrom[k] \subseteq Stages
    /\ \A k \in Kinds : {"none", "succeeded", "cancelled"} \cap ErrorCodes[k] = {}

VARIABLES
    \* the job records
    submitted,   \* how many jobs exist: job j exists iff j <= submitted
    kind, dataset, state, events, error, result, done, cancel,
    \* the manager
    idempotency, \* key -> the job last created under it
    createdUnder,\* history: key -> all the jobs ever created under it
    holder,      \* per-dataset lock -> the job that holds it
    waiters,     \* per-dataset lock -> the jobs queued for it
    store,       \* dataset id -> the job whose Dataset is registered
    \* the event loop and the executor
    ready,       \* the loop's FIFO of scheduled callbacks
    loop,        \* the step of _run the loop is in the middle of
    pool,        \* the executor's FIFO of submitted work
    worker,      \* where the job's blocking work is
    at,          \* the last stage boundary the work passed
    outcome      \* how the work ended

requestVars == <<submitted, kind, dataset, idempotency, createdUnder>>
recordVars  == <<state, events, error, result, done, cancel>>
lockVars    == <<holder, waiters>>
workVars    == <<pool, worker, at, outcome>>
vars == <<requestVars, recordVars, lockVars, store, ready, loop, workVars>>

Terminal == {"succeeded", "failed", "cancelled"}          \* TERMINAL_STATES
States == {"absent", "queued", "running"} \cup Terminal   \* JobState
Codes == ErrorCodes["ingest"] \cup ErrorCodes["query"] \cup {"cancelled"}
Outcomes == Codes \cup {"none", "succeeded"}

Callbacks ==
    [op : {"start", "acquired", "returned"}, job : Jobs, stage : {"enter"}]
        \cup [op : {"publish"}, job : Jobs, stage : Stages]
Callback(op, j) == [op |-> op, job |-> j, stage |-> "enter"]
Publication(j, s) == [op |-> "publish", job |-> j, stage |-> s]

Steps == {"idle", "result", "register", "state", "error", "finish"}
Idle == [step |-> "idle", job |-> NoJob]
At(step, j) == [step |-> step, job |-> j]

\* job.dataset_id or job.id: the key of the lock an ingest runs under.
LockKeys == Ids \cup Jobs

\* Mutant of LockKey: every job has a lock of its own.
LockKeyOfJob(j) == j

LockKey(j) == IF dataset[j] = EmptyId THEN j ELSE dataset[j]

TypeOK ==
    /\ submitted \in JobOrNone
    /\ kind \in [Jobs -> Kinds]
    /\ dataset \in [Jobs -> Ids]
    /\ idempotency \in [Keys -> JobOrNone]
    /\ createdUnder \in [Keys -> SUBSET Jobs]
    /\ state \in [Jobs -> States]
    /\ events \in [Jobs -> Seq(Stages)]
    /\ error \in [Jobs -> Outcomes]
    /\ result \in [Jobs -> BOOLEAN]
    /\ done \in [Jobs -> BOOLEAN]
    /\ cancel \in [Jobs -> BOOLEAN]
    /\ holder \in [LockKeys -> JobOrNone]
    /\ waiters \in [LockKeys -> Seq(Jobs)]
    /\ store \in [Ids -> JobOrNone]
    /\ ready \in Seq(Callbacks)
    /\ loop \in [step : Steps, job : JobOrNone]
    /\ pool \in Seq(Jobs)
    /\ worker \in [Jobs -> {"none", "queued", "working", "returned"}]
    /\ at \in [Jobs -> Positions]
    /\ outcome \in [Jobs -> Outcomes]

-----------------------------------------------------------------------------
Init ==
    /\ submitted = 0
    /\ kind = [j \in Jobs |-> "ingest"]
    /\ dataset = [j \in Jobs |-> EmptyId]
    /\ idempotency = [k \in Keys |-> NoJob]
    /\ createdUnder = [k \in Keys |-> {}]
    /\ state = [j \in Jobs |-> "absent"]
    /\ events = [j \in Jobs |-> <<>>]
    /\ error = [j \in Jobs |-> "none"]
    /\ result = [j \in Jobs |-> FALSE]
    /\ done = [j \in Jobs |-> FALSE]
    /\ cancel = [j \in Jobs |-> FALSE]
    /\ holder = [l \in LockKeys |-> NoJob]
    /\ waiters = [l \in LockKeys |-> <<>>]
    /\ store = [d \in Ids |-> NoJob]
    /\ ready = <<>>
    /\ loop = Idle
    /\ pool = <<>>
    /\ worker = [j \in Jobs |-> "none"]
    /\ at = [j \in Jobs |-> "enter"]
    /\ outcome = [j \in Jobs |-> "none"]

-----------------------------------------------------------------------------
(* Submission, on the event loop. *)

\* A new _Job of the given kind, and its task scheduled on the loop.
CreateJob(j, k, d) ==
    /\ submitted' = j
    /\ kind' = [kind EXCEPT ![j] = k]
    /\ dataset' = [dataset EXCEPT ![j] = d]
    /\ state' = [state EXCEPT ![j] = "queued"]
    /\ ready' = Append(ready, Callback("start", j))

\* Mutant of Reusable: only a job that already succeeded is returned.
ReusableWhenSucceeded(key) ==
    idempotency[key] # NoJob /\ state[idempotency[key]] = "succeeded"

\* The key names a job that is neither failed nor cancelled: submit_ingest
\* returns that job's view and changes nothing.
Reusable(key) ==
    /\ idempotency[key] # NoJob
    /\ state[idempotency[key]] \notin {"failed", "cancelled"}

SubmitIngest(j, key, d) ==
    /\ loop = Idle
    /\ j = submitted + 1
    /\ ~Reusable(key)
    /\ CreateJob(j, "ingest", d)
    /\ idempotency' = [idempotency EXCEPT ![key] = j]
    /\ createdUnder' = [createdUnder EXCEPT ![key] = @ \cup {j}]
    /\ UNCHANGED <<events, error, result, done, cancel, lockVars, store, loop, workVars>>

\* query_dataset answers 404 for a dataset the store does not hold.
SubmitQuery(j, d) ==
    /\ loop = Idle
    /\ j = submitted + 1
    /\ store[d] # NoJob
    /\ CreateJob(j, "query", d)
    /\ UNCHANGED <<idempotency, createdUnder, events, error, result, done, cancel,
                   lockVars, store, loop, workVars>>

\* Mutant of Cancel: the job is declared cancelled at once.
CancelAtOnce(j) ==
    /\ state[j] \in {"queued", "running"}
    /\ cancel' = [cancel EXCEPT ![j] = TRUE]
    /\ state' = [state EXCEPT ![j] = "cancelled"]
    /\ UNCHANGED <<requestVars, events, error, result, done, lockVars,
                   store, ready, loop, workVars>>

\* cancel, from a thread of the synchronous handlers: it may run between any
\* two steps of the loop.  For a terminal job it returns False.
Cancel(j) ==
    /\ state[j] \in {"queued", "running"}
    /\ cancel' = [cancel EXCEPT ![j] = TRUE]
    /\ UNCHANGED <<requestVars, state, events, error, result, done, lockVars,
                   store, ready, loop, workVars>>

-----------------------------------------------------------------------------
(* The loop's callbacks. *)

\* The loop is free and its next callback, which runs now, is op for job j.
Runs(op, j) ==
    /\ loop = Idle
    /\ ready # <<>>
    /\ Head(ready).op = op
    /\ Head(ready).job = j
    /\ ready' = Tail(ready)

\* _run up to its await: the job is running and its work is with the executor.
EnterRun(j) ==
    /\ state' = [state EXCEPT ![j] = "running"]
    /\ worker' = [worker EXCEPT ![j] = "queued"]
    /\ pool' = Append(pool, j)
    /\ UNCHANGED <<at, outcome>>

\* Mutant of LockFree: a newcomer overtakes the jobs queued for the lock.
LockFreeWithBarging(l) == holder[l] = NoJob

\* asyncio.Lock grants a free lock at once only when nobody is queued for it.
LockFree(l) == holder[l] = NoJob /\ waiters[l] = <<>>

\* The first step of an ingest's task: take the dataset's lock or queue for it.
StartIngest(j) ==
    /\ Runs("start", j)
    /\ kind[j] = "ingest"
    /\ \/ /\ LockFree(LockKey(j))
          /\ holder' = [holder EXCEPT ![LockKey(j)] = j]
          /\ EnterRun(j)
          /\ UNCHANGED waiters
       \/ /\ ~LockFree(LockKey(j))
          /\ waiters' = [waiters EXCEPT ![LockKey(j)] = Append(@, j)]
          /\ UNCHANGED <<holder, state, workVars>>
    /\ UNCHANGED <<requestVars, events, error, result, done, cancel, store, loop>>

\* A query takes no lock.
StartQuery(j) ==
    /\ Runs("start", j)
    /\ kind[j] = "query"
    /\ EnterRun(j)
    /\ UNCHANGED <<requestVars, events, error, result, done, cancel, lockVars, store, loop>>

\* A queued ingest wakes up, leaves the queue and owns the lock.
AcquireLock(j) ==
    /\ Runs("acquired", j)
    /\ waiters' = [waiters EXCEPT ![LockKey(j)] = Tail(@)]
    /\ holder' = [holder EXCEPT ![LockKey(j)] = j]
    /\ EnterRun(j)
    /\ UNCHANGED <<requestVars, events, error, result, done, cancel, store, loop>>

\* _publish: the event gets the next sequence number, which is its position.
Publish(j) ==
    /\ Runs("publish", j)
    /\ events' = [events EXCEPT ![j] = Append(@, Head(ready).stage)]
    /\ UNCHANGED <<requestVars, state, error, result, done, cancel, lockVars,
                   store, loop, workVars>>

\* Mutant of Resume: an ingest is registered however it ended.
ResumeToRegister(j) ==
    /\ Runs("returned", j)
    /\ loop' = At(IF outcome[j] = "succeeded" THEN "result"
                  ELSE IF kind[j] = "ingest" THEN "register" ELSE "state", j)
    /\ UNCHANGED <<requestVars, recordVars, lockVars, store, workVars>>

\* The task resumes after to_thread, with the work's result or its exception.
Resume(j) ==
    /\ Runs("returned", j)
    /\ loop' = At(IF outcome[j] = "succeeded" THEN "result" ELSE "state", j)
    /\ UNCHANGED <<requestVars, recordVars, lockVars, store, workVars>>

-----------------------------------------------------------------------------
(* The assignments that end _run, one step each. *)

SetResult(j) ==
    /\ loop = At("result", j)
    /\ result' = [result EXCEPT ![j] = TRUE]
    /\ loop' = At(IF kind[j] = "ingest" THEN "register" ELSE "state", j)
    /\ UNCHANGED <<requestVars, state, events, error, done, cancel, lockVars,
                   store, ready, workVars>>

\* on_success: the store's entry for the dataset is replaced.
RegisterDataset(j) ==
    /\ loop = At("register", j)
    /\ store' = [store EXCEPT ![dataset[j]] = j]
    /\ loop' = At("state", j)
    /\ UNCHANGED <<requestVars, recordVars, lockVars, ready, workVars>>

\* Mutant of EndState: the code of the error is taken for the state.
EndStateIsOutcome(j) == outcome[j]

EndState(j) ==
    CASE outcome[j] = "succeeded" -> "succeeded"
      [] outcome[j] = "cancelled" -> "cancelled"
      [] OTHER -> "failed"

\* Mutant of SetState: no error is recorded.
SetStateOnly(j) ==
    /\ loop = At("state", j)
    /\ state' = [state EXCEPT ![j] = EndState(j)]
    /\ loop' = At("finish", j)
    /\ UNCHANGED <<requestVars, events, error, result, done, cancel, lockVars,
                   store, ready, workVars>>

SetState(j) ==
    /\ loop = At("state", j)
    /\ state' = [state EXCEPT ![j] = EndState(j)]
    /\ loop' = At(IF outcome[j] = "succeeded" THEN "finish" ELSE "error", j)
    /\ UNCHANGED <<requestVars, events, error, result, done, cancel, lockVars,
                   store, ready, workVars>>

SetError(j) ==
    /\ loop = At("error", j)
    /\ error' = [error EXCEPT ![j] = outcome[j]]
    /\ loop' = At("finish", j)
    /\ UNCHANGED <<requestVars, state, events, result, done, cancel, lockVars,
                   store, ready, workVars>>

\* Mutant of ReleaseLock: nobody is woken up.
ReleaseLockSilently(j) ==
    /\ holder' = [holder EXCEPT ![LockKey(j)] = NoJob]
    /\ UNCHANGED <<waiters, ready>>

\* The ingest leaves its lock; the first job queued for it is woken up.
ReleaseLock(j) ==
    /\ holder' = [holder EXCEPT ![LockKey(j)] = NoJob]
    /\ ready' = IF waiters[LockKey(j)] = <<>> THEN ready
                ELSE Append(ready, Callback("acquired", Head(waiters[LockKey(j)])))
    /\ UNCHANGED waiters

\* _finish, and the exit from "async with lock" in the same callback.
Finish(j) ==
    /\ loop = At("finish", j)
    /\ done' = [done EXCEPT ![j] = TRUE]
    /\ loop' = Idle
    /\ \/ kind[j] = "ingest" /\ ReleaseLock(j)
       \/ kind[j] = "query" /\ UNCHANGED <<lockVars, ready>>
    /\ UNCHANGED <<requestVars, state, events, error, result, cancel, store, workVars>>

-----------------------------------------------------------------------------
(* The executor's threads. *)

Working == {j \in Jobs : worker[j] = "working"}

\* A free thread takes the oldest submitted work.
Dispatch(j) ==
    /\ pool # <<>>
    /\ j = Head(pool)
    /\ Cardinality(Working) < MaxWorkers
    /\ pool' = Tail(pool)
    /\ worker' = [worker EXCEPT ![j] = "working"]
    /\ UNCHANGED <<requestVars, recordVars, lockVars, store, ready, loop, at, outcome>>

\* Mutant of EndWork: the return overtakes the publications still scheduled.
EndWorkFirst(j, o) ==
    /\ worker[j] = "working"
    /\ worker' = [worker EXCEPT ![j] = "returned"]
    /\ outcome' = [outcome EXCEPT ![j] = o]
    /\ ready' = <<Callback("returned", j)>> \o ready
    /\ UNCHANGED <<requestVars, recordVars, lockVars, store, loop, pool, at>>

\* The work ends: its thread is free and its task is scheduled to resume.
EndWork(j, o) ==
    /\ worker[j] = "working"
    /\ worker' = [worker EXCEPT ![j] = "returned"]
    /\ outcome' = [outcome EXCEPT ![j] = o]
    /\ ready' = Append(ready, Callback("returned", j))
    /\ UNCHANGED <<requestVars, recordVars, lockVars, store, loop, pool, at>>

\* Mutant of PassBoundary: emit does not look at the cancel flag.
PassBoundaryUnchecked(j, s) ==
    /\ worker[j] = "working"
    /\ s \in NextStages[kind[j]][at[j]]
    /\ Len(ready) < MaxReady
    /\ at' = [at EXCEPT ![j] = s]
    /\ ready' = Append(ready, Publication(j, s))
    /\ UNCHANGED <<requestVars, recordVars, lockVars, store, loop, pool, worker, outcome>>

\* emit, when no cancel was requested: the event is handed to the loop.
PassBoundary(j, s) ==
    /\ worker[j] = "working"
    /\ s \in NextStages[kind[j]][at[j]]
    /\ ~cancel[j]
    /\ Len(ready) < MaxReady
    /\ at' = [at EXCEPT ![j] = s]
    /\ ready' = Append(ready, Publication(j, s))
    /\ UNCHANGED <<requestVars, recordVars, lockVars, store, loop, pool, worker, outcome>>

\* emit, when a cancel was requested: Cancelled is raised through the pipeline.
StopAtBoundary(j) ==
    /\ NextStages[kind[j]][at[j]] # {}
    /\ cancel[j]
    /\ EndWork(j, "cancelled")

\* The work between two boundaries raises.
WorkFails(j) == \E code \in ErrorCodes[kind[j]] : EndWork(j, code)

\* The pipeline returns its Dataset or its QueryResult.
WorkReturns(j) ==
    /\ at[j] \in ReturnsFrom[kind[j]]
    /\ EndWork(j, "succeeded")

-----------------------------------------------------------------------------
Submission ==
    \E j \in Jobs :
        \/ \E r \in Requests : SubmitIngest(j, r[1], r[2])
        \/ \E d \in Datasets : SubmitQuery(j, d)

Loop(j) ==
    \/ StartIngest(j) \/ StartQuery(j) \/ AcquireLock(j) \/ Publish(j) \/ Resume(j)
    \/ SetResult(j) \/ RegisterDataset(j) \/ SetState(j) \/ SetError(j) \/ Finish(j)

Worker(j) ==
    \/ \E s \in Stages : PassBoundary(j, s)
    \/ StopAtBoundary(j) \/ WorkFails(j) \/ WorkReturns(j)

Next ==
    \/ Submission
    \/ \E j \in Jobs : Cancel(j) \/ Loop(j) \/ Dispatch(j) \/ Worker(j)

\* The loop never stops serving callbacks, the executor never stops taking
\* work, and a pipeline that is running ends: its provider calls time out and
\* its SQL is finite.  Clients are under no obligation.
Fairness ==
    /\ WF_vars(\E j \in Jobs : Loop(j))
    /\ WF_vars(\E j \in Jobs : Dispatch(j))
    /\ \A j \in Jobs : WF_vars(Worker(j))

Spec == Init /\ [][Next]_vars
FairSpec == Spec /\ Fairness

-----------------------------------------------------------------------------
\* The job manager implements the life cycle DatasetJobs specifies: jobs end
\* once and for all, the ingests of a dataset run in the order of their
\* submission, and no failed or cancelled ingest is ever visible.
Promise == INSTANCE DatasetJobs
               WITH phase <- state, requested <- cancel, published <- store

ImplementsPromise == Promise!Spec
ImplementsFairPromise == Promise!FairSpec

-----------------------------------------------------------------------------
(* Properties. *)

\* An ingest that owns its lock and has not registered its dataset yet: its
\* work is with the executor, or the loop is about to deal with its return.
InProgress(j) == kind[j] = "ingest" /\ state[j] = "running"

\* Two ingests of one dataset never build it at the same time: their stages,
\* the promotion and the registration are serialised by the per-dataset lock,
\* whatever the order in which tasks start, wait, wake up and release.
IngestsSerialised ==
    \A i, j \in Jobs :
        i # j /\ InProgress(i) /\ InProgress(j) /\ dataset[i] # EmptyId
            => dataset[i] # dataset[j]

\* At any time at most one of the jobs created under an idempotency key is
\* live or succeeded: a retried upload is never ingested twice.
OneJobPerKey ==
    \A k \in Keys : \A i, j \in createdUnder[k] :
        i # j => state[i] \in {"failed", "cancelled"} \/ state[j] \in {"failed", "cancelled"}

\* When a job is done, the loop has published every event its worker emitted,
\* in the order of the pipeline: nothing of the job is left on the loop, so
\* the event that closes a stream is the last thing its readers get.
HistoryComplete ==
    \A j \in Jobs : done[j] =>
        /\ \A i \in DOMAIN ready : ready[i].job # j
        /\ events[j] = <<>> => at[j] = "enter"
        /\ events[j] # <<>> => events[j][Len(events[j])] = at[j]

\* A finished job carries exactly what its state announces: a result when it
\* succeeded, a shaped error otherwise, and "cancelled" only on request.
OutcomeShaped ==
    \A j \in Jobs : done[j] =>
        /\ state[j] \in Terminal
        /\ result[j] <=> state[j] = "succeeded"
        /\ error[j] = "none" <=> state[j] = "succeeded"
        /\ state[j] = "cancelled" => cancel[j]

\* A terminal state is final, and nothing is added to a finished job.
TerminalIsFinal ==
    [][\A j \in Jobs :
          /\ state[j] \in Terminal => state'[j] = state[j] /\ events'[j] = events[j]
          /\ done[j] => error'[j] = error[j] /\ result'[j] = result[j] /\ done'[j]]_vars

\* The job's worker has no further boundary at which to notice a cancel.
PastLastBoundary(j) == at[j] \in ReturnsFrom[kind[j]] \/ worker[j] = "returned"

\* A cancel that is acknowledged while a boundary lies ahead is never
\* overtaken by success: the job passes no further boundary.
CancelStopsAtNextBoundary ==
    \A j \in Jobs : [](cancel[j] /\ ~PastLastBoundary(j) => [](state[j] # "succeeded"))

\* Every submitted job finishes: no job waits for ever for its dataset's lock,
\* for a thread of the executor or for its turn on the loop.
EveryJobFinishes == \A j \in Jobs : state[j] = "queued" ~> done[j]
=============================================================================
