---------------------------- MODULE UploadsProofs ----------------------------
(***************************************************************************)
(* However many uploads, samples, workers and jobs there are, and whatever *)
(* the size of the volume, the properties of Uploads hold.                 *)
(***************************************************************************)
EXTENDS UploadsInv, JobManagerProofs, FiniteSetTheorems

-----------------------------------------------------------------------------
(* The upload path is a job manager. *)

\* Every request the handlers submit is one the manager knows.
LEMMA KeyFacts ==
    ASSUME NEW u \in AllRequests
    PROVE  /\ <<Key(u), IdOf[NameOf(u)]>> \in Requests
           /\ Key(u) \in Keys /\ IdOf[NameOf(u)] \in Ids
  BY UploadsAssumption, ConstantsAssumption

\* Nothing but ingests is submitted.
OnlyIngests == kind = [j \in Jobs |-> "ingest"]

\* A step of the upload path is a step of the manager, or none for it.
LEMMA ManagerStep ==
    ASSUME OnlyIngests, HandlerInv, [UploadNext]_allVars
    PROVE  [Next]_vars
<1>1. ASSUME NEW u \in AllRequests, SubmitRequest(u) PROVE [Next]_vars
  <2>1. ASSUME NEW j \in Jobs, SubmitIngest(j, Key(u), IdOf[NameOf(u)]) PROVE Next
    <3> DEFINE r == <<Key(u), IdOf[NameOf(u)]>>
    <3>1. r \in Requests /\ r[1] = Key(u) /\ r[2] = IdOf[NameOf(u)]
      BY KeyFacts
    <3> HIDE DEF r
    <3>2. Submission
      BY <2>1, <3>1 DEF Submission
    <3>3. QED
      BY <3>2 DEF Next
  <2>2. QED
    BY <1>1, <2>1 DEF SubmitRequest
<1>2. CASE Handler
  <2>1. CASE \E u \in Uploads : Admit(u)
    BY <2>1 DEF Admit
  <2>2. CASE OpenFile \/ WriteFile \/ WriteFails
    BY <2>2 DEF OpenFile, WriteFile, WriteFails
  <2>3. CASE SubmitUpload
    <3>1. handler.upload \in AllRequests
      BY <2>3 DEF SubmitUpload, HandlerInv, HandlerAt, NotHandling, AllRequests
    <3>2. QED
      BY <1>1, <2>3, <3>1 DEF SubmitUpload
  <2>4. CASE \E u \in Samples : LoadSample(u)
    BY <1>1, <2>4 DEF LoadSample, AllRequests
  <2>5. QED
    BY <1>2, <2>1, <2>2, <2>3, <2>4 DEF Handler
<1>3. ASSUME NEW j \in Jobs, UploadLoop(j) PROVE Next
  BY <1>3 DEF UploadLoop, Next
<1>4. ASSUME NEW j \in Jobs, Dispatch(j) PROVE Next
  BY <1>4 DEF Next
<1>5. ASSUME NEW j \in Jobs, UploadWorker(j) PROVE Next
  <2>1. Worker(j)
    <3>1. CASE \E s \in Stages : EndStage(j, s)
      BY <3>1 DEF EndStage, Worker
    <3>2. CASE Starve(j)
      <4>1. "ingest_failed" \in ErrorCodes[kind[j]]
        BY UploadsAssumption DEF OnlyIngests
      <4>2. QED
        BY <3>2, <4>1 DEF Starve, Worker, WorkFails
    <3>3. CASE EndOfWork(j)
      BY <3>3 DEF EndOfWork, Worker
    <3>4. QED
      BY <1>5, <3>1, <3>2, <3>3 DEF UploadWorker
  <2>2. QED
    BY <2>1 DEF Next
<1>6. CASE UNCHANGED allVars
  BY <1>6 DEF allVars
<1>7. QED
  BY <1>2, <1>3, <1>4, <1>5, <1>6 DEF UploadNext

\* Every job number but the none of them names a job.
LEMMA SomeJob == ASSUME NEW n \in JobOrNone, n # NoJob PROVE n \in Jobs
  BY DEF JobOrNone, Jobs, NoJob

\* The handler's steps have their places.
LEMMA HandlerSteps3 ==
    ASSUME NEW step \in 1..3
    PROVE  /\ Len(HandlerSteps) = 3
           /\ HandlerSteps[step] = "open" <=> step = 1
           /\ HandlerSteps[step] = "write" <=> step = 2
           /\ HandlerSteps[step] = "submit" <=> step = 3
  BY DEF HandlerSteps

\* Where the handler is, and where it is after a step.
LEMMA HandlerFacts ==
    ASSUME HandlerInv
    PROVE  /\ \A step \in {"open", "write", "submit"} :
                 HandlerAt(step) => handler # NotHandling /\ handler.upload \in Uploads
           /\ HandlerAt("open") =>
                 handler.step = 1 /\ Advanced = [handler EXCEPT !.step = 2]
           /\ HandlerAt("write") =>
                 handler.step = 2 /\ Advanced = [handler EXCEPT !.step = 3]
           /\ HandlerAt("submit") => handler.step = 3 /\ Advanced = NotHandling
<1>1. NotHandling.step = 0
  BY DEF NotHandling
<1>2. \A step : HandlerAt(step) =>
          /\ handler # NotHandling /\ handler.upload \in Uploads /\ handler.step \in 1..3
          /\ HandlerSteps[handler.step] = step
  BY <1>1 DEF HandlerAt, HandlerInv
<1>3. QED
  BY <1>2, HandlerSteps3 DEF Advanced

\* Only ingests are submitted.
LEMMA KindStep == OnlyIngests /\ HandlerInv /\ [UploadNext]_allVars => OnlyIngests'
<1> SUFFICES ASSUME OnlyIngests, HandlerInv, [UploadNext]_allVars PROVE OnlyIngests'
  OBVIOUS
<1>1. ASSUME NEW j \in Jobs, NEW k, NEW d, SubmitIngest(j, k, d) PROVE OnlyIngests'
  BY <1>1 DEF SubmitIngest, CreateJob, OnlyIngests
<1>2. ASSUME NEW u, SubmitRequest(u) PROVE OnlyIngests'
  BY <1>1, <1>2 DEF SubmitRequest, OnlyIngests, vars, requestVars
<1>3. ASSUME kind' = kind PROVE OnlyIngests'
  BY <1>3 DEF OnlyIngests
<1>4. CASE Handler
  BY <1>2, <1>3, <1>4 DEF Handler, Admit, OpenFile, WriteFile, WriteFails, SubmitUpload,
                          LoadSample, vars, requestVars
<1>5. ASSUME NEW j \in Jobs, Loop(j) PROVE kind' = kind
  BY <1>5 DEF Loop, StartIngest, StartQuery, AcquireLock, Publish, Resume, SetResult,
              RegisterDataset, SetState, SetError, Finish, requestVars
<1>6. ASSUME NEW j \in Jobs, Dispatch(j) \/ UploadWorker(j) PROVE kind' = kind
  BY <1>6 DEF Dispatch, UploadWorker, EndStage, PassBoundary, Starve, EndOfWork, WorkFails,
              WorkReturns, EndWork, requestVars
<1>7. CASE UNCHANGED allVars
  BY <1>3, <1>7 DEF allVars, vars, requestVars
<1>8. QED
  BY <1>3, <1>4, <1>5, <1>6, <1>7 DEF UploadNext, UploadLoop

\* The loop waits for the handler, and the workers change no state.
LEMMA HandlerStep == HandlerInv /\ [UploadNext]_allVars => HandlerInv'
<1> SUFFICES ASSUME HandlerInv, [UploadNext]_allVars PROVE HandlerInv'
  OBVIOUS
<1>1. ASSUME handler' = NotHandling PROVE HandlerInv'
  BY <1>1 DEF HandlerInv
<1>2. ASSUME NEW u \in Uploads, Admit(u) PROVE HandlerInv'
  <2>1. handler' = [upload |-> u, step |-> 1] /\ crowded' = crowded \cup Live
        /\ UNCHANGED <<loop, state>> /\ loop = Idle
    BY <1>2 DEF Admit, Serves, vars, recordVars
  <2>2. handler' \in [upload : Uploads, step : 1..3] /\ Live' = Live
    BY <2>1 DEF Live
  <2>3. QED
    BY <2>1, <2>2 DEF HandlerInv
<1>3. ASSUME UNCHANGED <<loop, state, crowded>>,
             handler' = handler \/ (handler # NotHandling /\ handler' \in [upload : Uploads, step : 1..3])
      PROVE  HandlerInv'
  BY <1>3 DEF HandlerInv, Live
<1>4. CASE OpenFile \/ WriteFile
  <2>1. /\ UNCHANGED <<loop, state, crowded>> /\ handler' = Advanced
        /\ HandlerAt("open") \/ HandlerAt("write")
    BY <1>4 DEF OpenFile, WriteFile, vars, recordVars
  <2>2. /\ handler # NotHandling /\ handler \in [upload : Uploads, step : 1..3]
        /\ handler' = [handler EXCEPT !.step = 2] \/ handler' = [handler EXCEPT !.step = 3]
    BY <2>1, HandlerFacts DEF HandlerInv
  <2>3. handler' \in [upload : Uploads, step : 1..3]
    BY <2>2
  <2>4. QED
    BY <1>3, <2>1, <2>2, <2>3
<1>5. CASE WriteFails
  BY <1>1, <1>5 DEF WriteFails
<1>6. CASE SubmitUpload \/ \E u \in Samples : LoadSample(u)
  <2>1. CASE SubmitUpload
    BY <1>1, <2>1, HandlerFacts DEF SubmitUpload
  <2>2. CASE \E u \in Samples : LoadSample(u)
    BY <1>1, <2>2 DEF LoadSample, Serves
  <2>3. QED
    BY <1>6, <2>1, <2>2
<1>7. ASSUME NEW j \in Jobs, UploadLoop(j) PROVE HandlerInv'
  BY <1>1, <1>7 DEF UploadLoop, uploadVars
<1>8. ASSUME NEW j \in Jobs, (Dispatch(j) /\ UNCHANGED uploadVars) \/ UploadWorker(j) PROVE HandlerInv'
  <2>1. UNCHANGED <<loop, state, crowded, handler>>
    BY <1>8 DEF Dispatch, UploadWorker, EndStage, PassBoundary, Starve, EndOfWork, WorkFails,
                WorkReturns, EndWork, recordVars, uploadVars
  <2>2. QED
    BY <1>3, <2>1
<1>9. CASE UNCHANGED allVars
  BY <1>3, <1>9 DEF allVars, vars, recordVars, uploadVars
<1>10. QED
  BY <1>2, <1>4, <1>5, <1>6, <1>7, <1>8, <1>9 DEF UploadNext, Handler

\* The upload path implements the job manager, so all that is proved of the
\* manager holds of it.
THEOREM UploadsManaged == UploadSpec => Spec
<1>1. UploadInit => Init /\ OnlyIngests /\ HandlerInv
  BY DEF UploadInit, Init, OnlyIngests, HandlerInv
<1>2. QED
  BY <1>1, KindStep, HandlerStep, ManagerStep, PTL DEF UploadSpec, Spec

-----------------------------------------------------------------------------
(* What a step does to the records. *)

\* A callback of the loop and the dispatch of some work change no request and
\* pass no boundary, make no job live and forget none.
LEMMA LoopFacts ==
    ASSUME TypeOK, IInv, NEW j \in Jobs, Loop(j) \/ Dispatch(j)
    PROVE  /\ UNCHANGED <<requestVars, at, outcome>>
           /\ \A i \in Jobs : state'[i] = "absent" <=> state[i] = "absent"
           /\ Live' \subseteq Live
           /\ \A i \in Jobs : worker'[i] \in {"none", "queued"} => worker[i] \in {"none", "queued"}
           /\ \A i \in Jobs : worker[i] = "returned" => worker'[i] = "returned"
           /\ \A i \in Jobs : worker'[i] = "working" <=>
                                worker[i] = "working" \/ (worker[i] = "queued" /\ i = j /\ Dispatch(j))
<1>1. CASE StartIngest(j) \/ StartQuery(j) \/ AcquireLock(j)
  <2>1. state[j] = "queued"
    BY <1>1, RunsFacts DEF IInv, StartIngest, StartQuery, AcquireLock, CallbackOK
  <2>2. worker[j] = "none"
    BY <2>1 DEF IInv, RecordInv
  <2>3. /\ UNCHANGED <<requestVars, at, outcome>>
        /\ \/ UNCHANGED <<state, worker>>
           \/ /\ state' = [state EXCEPT ![j] = "running"]
              /\ worker' = [worker EXCEPT ![j] = "queued"]
    BY <1>1 DEF StartIngest, StartQuery, AcquireLock, EnterRun, workVars
  <2>4. ~Dispatch(j)
    BY <1>1 DEF StartIngest, StartQuery, AcquireLock, EnterRun, Dispatch, recordVars, Runs
  <2>5. CASE UNCHANGED <<state, worker>>
    BY <2>3, <2>4, <2>5 DEF Live
  <2>6. CASE state' = [state EXCEPT ![j] = "running"] /\ worker' = [worker EXCEPT ![j] = "queued"]
    BY <2>1, <2>2, <2>3, <2>4, <2>6 DEF Live, TypeOK
  <2>7. QED
    BY <2>3, <2>5, <2>6
<1>2. CASE Publish(j) \/ Resume(j) \/ SetResult(j) \/ RegisterDataset(j) \/ SetError(j) \/ Finish(j)
  <2>1. UNCHANGED <<requestVars, state, workVars>>
    BY <1>2 DEF Publish, Resume, SetResult, RegisterDataset, SetError, Finish, recordVars
  <2>2. QED
    BY <2>1 DEF Live, workVars, Dispatch
<1>3. CASE SetState(j)
  <2>1. /\ UNCHANGED <<requestVars, workVars>> /\ state' = [state EXCEPT ![j] = EndState(j)]
        /\ loop.job = j
    BY <1>3 DEF SetState, At
  <2>2. state[j] # "absent" /\ EndState(j) \in Terminal
    BY <2>1, SMT DEF IInv, LoopInv, RecordInv, Jobs, NoJob, EndState, Terminal
  <2>3. QED
    BY <2>1, <2>2 DEF Live, workVars, Dispatch, TypeOK, Terminal
<1>4. CASE Dispatch(j)
  <2>1. pool # <<>> /\ j = Head(pool) /\ worker' = [worker EXCEPT ![j] = "working"]
        /\ UNCHANGED <<requestVars, recordVars, at, outcome>>
    BY <1>4 DEF Dispatch
  <2>2. worker[j] = "queued"
    <3>1. Head(pool) = pool[1] /\ 1 \in 1..Len(pool)
      BY <2>1, TailFacts DEF TypeOK
    <3>2. QED
      BY <2>1, <3>1 DEF IInv, PoolInv
  <2>3. QED
    BY <1>4, <2>1, <2>2 DEF Live, recordVars, TypeOK
<1>5. QED
  BY <1>1, <1>2, <1>3, <1>4 DEF Loop

\* A worker's step changes no request and no record.
LEMMA WorkerFacts ==
    ASSUME NEW j \in Jobs, UploadWorker(j)
    PROVE  /\ UNCHANGED <<requestVars, recordVars, loop, volume, file, handler, requests, origin,
                          rewriters, crowded, replies>>
           /\ worker[j] = "working" /\ Live' = Live
  BY DEF UploadWorker, EndStage, PassBoundary, Starve, EndOfWork, WorkFails, WorkReturns,
         EndWork, uploadVars, Live, recordVars

\* A step of the handler that submits nothing leaves the manager alone.
LEMMA HandlerQuiet ==
    ASSUME (\E u \in Uploads : Admit(u)) \/ OpenFile \/ WriteFile \/ WriteFails
    PROVE  UNCHANGED <<vars, volume, origin, cut, starved, replies>>
  BY DEF Admit, OpenFile, WriteFile, WriteFails

\* What a step that submits nothing leaves as it is.
Kept ==
    /\ UNCHANGED <<requestVars, origin, replies>>
    /\ Live' \subseteq Live
    /\ \A i \in Jobs : state'[i] = "absent" <=> state[i] = "absent"

\* A handler submits request u, new or known.
Submits(u) ==
    /\ u \in AllRequests /\ SubmitRequest(u) /\ loop = Idle
    /\ handler' = NotHandling
    /\ UNCHANGED <<volume, file, torn, cut, rewriters, starved>>

\* Every step submits a request or keeps the records.
LEMMA StepCases ==
    ASSUME TypeOK, IInv, HandlerInv, [UploadNext]_allVars
    PROVE  Kept \/ \E u \in AllRequests : Submits(u)
<1>1. ASSUME UNCHANGED <<requestVars, origin, replies, state>> PROVE Kept
  BY <1>1 DEF Kept, Live
<1>2. CASE (\E u \in Uploads : Admit(u)) \/ OpenFile \/ WriteFile \/ WriteFails
  BY <1>1, <1>2, HandlerQuiet DEF vars, recordVars
<1>3. CASE SubmitUpload
  <2>1. Submits(handler.upload)
    BY <1>3, HandlerFacts DEF SubmitUpload, HandlerInv, AllRequests, Submits
  <2>2. QED
    BY <2>1 DEF Submits
<1>4. CASE \E u \in Samples : LoadSample(u)
  <2>1. PICK u \in Samples : LoadSample(u)
    BY <1>4
  <2>2. Submits(u)
    BY <2>1 DEF LoadSample, Serves, AllRequests, Submits
  <2>3. QED
    BY <2>2 DEF Submits
<1>5. ASSUME NEW j \in Jobs, UploadLoop(j) \/ (Dispatch(j) /\ UNCHANGED uploadVars) PROVE Kept
  BY <1>5, LoopFacts DEF UploadLoop, uploadVars, Kept
<1>6. ASSUME NEW j \in Jobs, UploadWorker(j) PROVE Kept
  BY <1>1, <1>6, WorkerFacts DEF recordVars
<1>7. CASE UNCHANGED allVars
  BY <1>1, <1>7 DEF allVars, vars, recordVars, uploadVars
<1>8. QED
  BY <1>2, <1>3, <1>4, <1>5, <1>6, <1>7 DEF UploadNext, Handler

\* A new job is one that was absent.
LEMMA NewJob ==
    ASSUME TypeOK, IInv, NEW u \in AllRequests, NEW j \in Jobs,
           SubmitIngest(j, Key(u), IdOf[NameOf(u)])
    PROVE  /\ state[j] = "absent" /\ worker[j] = "none" /\ loop = Idle
           /\ submitted' = j
           /\ state' = [state EXCEPT ![j] = "queued"]
           /\ dataset' = [dataset EXCEPT ![j] = IdOf[NameOf(u)]]
           /\ idempotency' = [idempotency EXCEPT ![Key(u)] = j]
           /\ UNCHANGED <<store, workVars>>
<1>1. j > submitted
  BY DEF SubmitIngest, TypeOK, JobOrNone, Jobs
<1>2. state[j] = "absent" /\ worker[j] = "none"
  BY <1>1 DEF IInv, RecordInv
<1>3. QED
  BY <1>2 DEF SubmitIngest, CreateJob

-----------------------------------------------------------------------------
(* Whose the jobs, the keys and the answers are. *)

\* A job keeps its request, and a new job's key is that of its request.
LEMMA OriginStep ==
    TypeOK /\ IInv /\ HandlerInv /\ UploadTypeOK /\ OriginInv /\ [UploadNext]_allVars => OriginInv'
<1> SUFFICES ASSUME TypeOK, IInv, HandlerInv, UploadTypeOK, OriginInv, [UploadNext]_allVars
             PROVE  OriginInv'
  OBVIOUS
<1>1. (kind = [j \in Jobs |-> "ingest"])'
  BY KindStep DEF OnlyIngests, OriginInv
<1>2. CASE Kept
  <2>1. UNCHANGED <<dataset, idempotency, origin>>
    BY <1>2 DEF Kept, requestVars
  <2>2. \A j \in Jobs : state'[j] = "absent" <=> state[j] = "absent"
    BY <1>2 DEF Kept
  <2>3. \A k \in Keys : idempotency[k] # NoJob => idempotency[k] \in Jobs
    BY DEF TypeOK, JobOrNone, Jobs, NoJob
  <2>4. QED
    BY <1>1, <2>1, <2>2, <2>3 DEF OriginInv, Key, NameOf
<1>3. ASSUME NEW u \in AllRequests, Submits(u) PROVE OriginInv'
  <2>1. CASE UNCHANGED <<vars, origin>>
    BY <1>1, <2>1 DEF OriginInv, vars, recordVars, requestVars, Key, NameOf
  <2>2. ASSUME NEW j \in Jobs, SubmitIngest(j, Key(u), IdOf[NameOf(u)]),
               origin' = [origin EXCEPT ![j] = u]
        PROVE  OriginInv'
    <3>1. /\ state[j] = "absent" /\ state' = [state EXCEPT ![j] = "queued"]
          /\ dataset' = [dataset EXCEPT ![j] = IdOf[NameOf(u)]]
          /\ idempotency' = [idempotency EXCEPT ![Key(u)] = j]
      BY <2>2, NewJob
    <3>2. /\ state \in [Jobs -> States] /\ origin \in [Jobs -> AllRequests \cup {NoUpload}]
          /\ dataset \in [Jobs -> Ids] /\ idempotency \in [Keys -> JobOrNone]
      BY DEF TypeOK, UploadTypeOK
    <3>3. ASSUME NEW i \in Jobs, state'[i] # "absent"
          PROVE  origin'[i] \in AllRequests /\ dataset'[i] = IdOf[NameOf(origin'[i])]
      <4>1. CASE i = j
        BY <2>2, <3>1, <3>2, <4>1
      <4>2. CASE i # j
        BY <2>2, <3>1, <3>2, <3>3, <4>2 DEF OriginInv
      <4>3. QED
        BY <4>1, <4>2
    <3>4. ASSUME NEW k \in Keys, idempotency'[k] # NoJob
          PROVE  state'[idempotency'[k]] # "absent" /\ Key(origin'[idempotency'[k]]) = k
      <4>1. CASE k = Key(u)
        BY <2>2, <3>1, <3>2, <4>1
      <4>2. CASE k # Key(u)
        <5>1. idempotency'[k] = idempotency[k]
          BY <3>1, <3>2, <4>2
        <5>2. /\ idempotency[k] \in Jobs
              /\ state[idempotency[k]] # "absent" /\ Key(origin[idempotency[k]]) = k
          BY <3>2, <3>4, <5>1 DEF OriginInv, JobOrNone, Jobs, NoJob
        <5>3. QED
          BY <2>2, <3>1, <3>2, <5>1, <5>2
      <4>3. QED
        BY <4>1, <4>2
    <3>5. QED
      BY <1>1, <3>3, <3>4 DEF OriginInv, NameOf, Key
  <2>3. QED
    BY <1>3, <2>1, <2>2 DEF Submits, SubmitRequest
<1>4. QED
  BY <1>2, <1>3, StepCases

\* What the key of request u names is a job of u's content and u's dataset.
LEMMA KeyNames ==
    ASSUME TypeOK, OriginInv, NEW u \in AllRequests, u.header = NoName,
           idempotency[Key(u)] # NoJob
    PROVE  /\ origin[idempotency[Key(u)]].content = u.content
           /\ dataset[idempotency[Key(u)]] = IdOf[NameOf(u)]
<1> DEFINE j == idempotency[Key(u)]
<1>1. Key(u) \in Keys /\ j \in Jobs
  <2>1. Key(u) \in Keys
    BY KeyFacts
  <2>2. j \in JobOrNone /\ j # NoJob
    BY <2>1 DEF TypeOK
  <2>3. QED
    BY <2>1, <2>2, SomeJob
<1>2. /\ origin[j] \in AllRequests /\ Key(origin[j]) = Key(u)
      /\ dataset[j] = IdOf[NameOf(origin[j])]
  BY <1>1 DEF OriginInv
<1>3. origin[j].header = NoName
  BY <1>2, UploadsAssumption DEF Key
<1>4. <<NameOf(origin[j]), origin[j].content>> = <<NameOf(u), u.content>>
  BY <1>2, <1>3 DEF Key
<1>5. QED
  BY <1>2, <1>4

\* What an answer promises.
ReplyOK(r) ==
    /\ state[r.job] # "absent"
    /\ r.request.header = NoName =>
          /\ origin[r.job].content = r.request.content
          /\ dataset[r.job] = IdOf[NameOf(r.request)]
    /\ r.stale /\ dataset[r.job] # EmptyId =>
          \E k \in Jobs : k > r.job /\ dataset[k] = dataset[r.job] /\ state[k] = "succeeded"

\* A promise is kept as long as the jobs keep their requests and their data.
LEMMA ReplyKept ==
    ASSUME TypeOK, IInv, [Next]_vars, NEW r, r.job \in Jobs, ReplyOK(r),
           \A i \in Jobs : state[i] # "absent" => origin'[i] = origin[i] /\ dataset'[i] = dataset[i]
    PROVE  ReplyOK(r)'
<1>1. \A i \in Jobs : state[i] # "absent" => state'[i] # "absent"
  BY StateSteps
<1>2. \A i \in Jobs : state[i] = "succeeded" => state'[i] = "succeeded"
  BY StateSteps DEF Terminal
<1>3. state[r.job] # "absent" /\ origin'[r.job] = origin[r.job] /\ dataset'[r.job] = dataset[r.job]
  BY DEF ReplyOK
<1>4. ASSUME r.stale, dataset'[r.job] # EmptyId
      PROVE  \E k \in Jobs : k > r.job /\ dataset'[k] = dataset'[r.job] /\ state'[k] = "succeeded"
  <2>1. PICK k \in Jobs : k > r.job /\ dataset[k] = dataset[r.job] /\ state[k] = "succeeded"
    BY <1>3, <1>4 DEF ReplyOK
  <2>2. dataset'[k] = dataset[k] /\ state'[k] = "succeeded"
    BY <1>2, <2>1
  <2>3. QED
    BY <1>3, <2>1, <2>2
<1>5. r.request.header = NoName =>
          /\ origin'[r.job].content = r.request.content
          /\ dataset'[r.job] = IdOf[NameOf(r.request)]
  BY <1>3 DEF ReplyOK
<1>6. QED
  BY <1>1, <1>3, <1>4, <1>5 DEF ReplyOK, NameOf

\* A job that is over while its dataset serves other content was replaced by
\* a later one: a dataset is served from the last of its ingests.
LEMMA Replaced ==
    ASSUME TypeOK, OriginInv, NewestServed, loop = Idle, NEW j \in Jobs,
           state[j] = "succeeded", dataset[j] # EmptyId, store[dataset[j]] # NoJob,
           origin[store[dataset[j]]].content # origin[j].content
    PROVE  \E k \in Jobs : k > j /\ dataset[k] = dataset[j] /\ state[k] = "succeeded"
<1>0. dataset[j] \in Ids /\ store[dataset[j]] \in Jobs
  <2>1. dataset[j] \in Ids /\ store[dataset[j]] \in JobOrNone
    BY DEF TypeOK
  <2>2. QED
    BY <2>1, SomeJob
<1>1. PICK k \in Jobs : k = store[dataset[j]]
  BY <1>0
<1>2. dataset[j] \in Ids /\ k \in Jobs
  BY <1>0
<1>3. dataset[k] = dataset[j] /\ state[k] = "succeeded"
  BY <1>1, <1>2 DEF NewestServed, At, Idle
<1>4. kind[j] = "ingest"
  BY DEF OriginInv
<1>5. k >= j /\ k # j
  BY <1>1, <1>4 DEF NewestServed
<1>6. k > j
  BY <1>2, <1>5 DEF Jobs
<1>7. QED
  BY <1>2, <1>3, <1>6

\* Every answer promises what it should when it is given, and goes on doing so.
LEMMA ReplyStep ==
    TypeOK /\ IInv /\ NewestServed /\ HandlerInv /\ UploadTypeOK /\ OriginInv /\ ReplyInv
        /\ [UploadNext]_allVars => ReplyInv'
<1> SUFFICES ASSUME TypeOK, IInv, NewestServed, HandlerInv, UploadTypeOK, OriginInv, ReplyInv,
                    [UploadNext]_allVars
             PROVE  ReplyInv'
  OBVIOUS
<1>1. \A r \in replies : r.job \in Jobs /\ ReplyOK(r)
  BY DEF UploadTypeOK, ReplyInv, ReplyNamesContent, StaleOnlyAfterReplacement, ReplyOK
<1>2. [Next]_vars
  BY ManagerStep DEF OnlyIngests, OriginInv
<1>3. ASSUME \A r \in replies' : ReplyOK(r)' PROVE ReplyInv'
  BY <1>3 DEF ReplyInv, ReplyNamesContent, StaleOnlyAfterReplacement, ReplyOK
<1>4. CASE Kept
  <2>1. replies' = replies /\ UNCHANGED <<origin, dataset>>
    BY <1>4 DEF Kept, requestVars
  <2>2. \A r \in replies : ReplyOK(r)'
    BY <1>1, <1>2, <2>1, ReplyKept
  <2>3. QED
    BY <1>3, <2>1, <2>2
<1>5. ASSUME NEW u \in AllRequests, Submits(u) PROVE ReplyInv'
  <2>1. CASE /\ Reusable(Key(u)) /\ Reply(u, idempotency[Key(u)], TRUE)
             /\ UNCHANGED <<vars, origin, crowded>>
    <3>0. Key(u) \in Keys /\ idempotency[Key(u)] \in Jobs
      <4>1. Key(u) \in Keys
        BY KeyFacts
      <4>2. idempotency[Key(u)] \in JobOrNone /\ idempotency[Key(u)] # NoJob
        BY <2>1, <4>1 DEF Reusable, TypeOK
      <4>3. QED
        BY <4>1, <4>2, SomeJob
    <3>1. PICK j \in Jobs : j = idempotency[Key(u)]
      BY <3>0
    <3>2. j \in Jobs /\ state[j] # "absent" /\ idempotency[Key(u)] # NoJob
      BY <2>1, <3>0, <3>1 DEF Reusable, OriginInv
    <3>3. PICK st \in BOOLEAN : st = (/\ state[j] = "succeeded" /\ store[dataset[j]] # NoJob
                                    /\ origin[store[dataset[j]]].content # origin[j].content)
      OBVIOUS
    <3>4. replies' = replies \cup {[request |-> u, job |-> j, reused |-> TRUE, stale |-> st]}
      BY <2>1, <3>1, <3>3 DEF Reply
    <3>5. UNCHANGED <<state, dataset, origin>>
      BY <2>1 DEF vars, recordVars, requestVars
    <3>6. ReplyOK([request |-> u, job |-> j, reused |-> TRUE, stale |-> st])'
      <4>1. u.header = NoName => origin[j].content = u.content /\ dataset[j] = IdOf[NameOf(u)]
        BY <3>1, <3>2, KeyNames
      <4>2. st /\ dataset[j] # EmptyId =>
              \E k \in Jobs : k > j /\ dataset[k] = dataset[j] /\ state[k] = "succeeded"
        BY <1>5, <3>2, <3>3, Replaced DEF Submits
      <4>3. QED
        BY <3>2, <3>5, <4>1, <4>2 DEF ReplyOK, NameOf
    <3>7. \A r \in replies : ReplyOK(r)'
      BY <1>1, <1>2, <3>5, ReplyKept
    <3>8. QED
      BY <1>3, <3>4, <3>6, <3>7
  <2>2. ASSUME NEW j \in Jobs, SubmitIngest(j, Key(u), IdOf[NameOf(u)]),
               origin' = [origin EXCEPT ![j] = u], Reply(u, j, FALSE)
        PROVE  ReplyInv'
    <3>1. /\ state[j] = "absent" /\ state' = [state EXCEPT ![j] = "queued"]
          /\ dataset' = [dataset EXCEPT ![j] = IdOf[NameOf(u)]]
      BY <2>2, NewJob
    <3>2. /\ state \in [Jobs -> States] /\ origin \in [Jobs -> AllRequests \cup {NoUpload}]
          /\ dataset \in [Jobs -> Ids]
      BY DEF TypeOK, UploadTypeOK
    <3>3. replies' = replies \cup {[request |-> u, job |-> j, reused |-> FALSE, stale |-> FALSE]}
      BY <2>2, <3>1 DEF Reply
    <3>4. ReplyOK([request |-> u, job |-> j, reused |-> FALSE, stale |-> FALSE])'
      <4>1. state'[j] = "queued" /\ origin'[j] = u /\ dataset'[j] = IdOf[NameOf(u)]
        BY <2>2, <3>1, <3>2
      <4>2. QED
        BY <4>1 DEF ReplyOK, NameOf
    <3>5. \A i \in Jobs : state[i] # "absent" => origin'[i] = origin[i] /\ dataset'[i] = dataset[i]
      BY <2>2, <3>1, <3>2
    <3>6. \A r \in replies : ReplyOK(r)'
      BY <1>1, <1>2, <3>5, ReplyKept
    <3>7. QED
      BY <1>3, <3>3, <3>4, <3>6
  <2>3. QED
    BY <1>5, <2>1, <2>2 DEF Submits, SubmitRequest
<1>6. QED
  BY <1>4, <1>5, StepCases

-----------------------------------------------------------------------------
(* The files and those who empty them. *)

\* Opening a file is what it does to the jobs on their way.
LEMMA OpenFacts ==
    ASSUME HandlerInv, UploadTypeOK, OpenFile
    PROVE  LET p == handler.upload.content IN
           /\ handler.upload \in Uploads /\ p \in Contents /\ p \in Paths
           /\ file' = [file EXCEPT ![p] = "cut"]
           /\ torn' = torn \cup Reading(p)
           /\ \A j \in Jobs : rewriters'[j] = rewriters[j] \cup
                                  IF j \in Ingesting(p) THEN {handler.upload} ELSE {}
           /\ rewriters' \in [Jobs -> SUBSET Uploads]
           /\ handler' = [handler EXCEPT !.step = 2] /\ handler.step = 1
           /\ UNCHANGED <<vars, volume, requests, origin, cut, crowded, starved, replies>>
<1>1. handler.upload \in Uploads
  BY HandlerFacts DEF OpenFile
<1>2. handler.upload.content \in Contents /\ handler.upload.content \in Paths
  BY <1>1, UploadsAssumption DEF Paths
<1>3. rewriters' = [j \in Jobs |-> rewriters[j] \cup
                        IF j \in Ingesting(handler.upload.content) THEN {handler.upload} ELSE {}]
  BY DEF OpenFile, FileOf
<1>4. rewriters' \in [Jobs -> SUBSET Uploads]
  BY <1>1, <1>3 DEF UploadTypeOK
<1>5. \A j \in Jobs : rewriters'[j] = rewriters[j] \cup
          IF j \in Ingesting(handler.upload.content) THEN {handler.upload} ELSE {}
  BY <1>3
<1>6. QED
  BY <1>1, <1>2, <1>4, <1>5, HandlerFacts DEF OpenFile, FileOf

LEMMA WriteFacts ==
    ASSUME HandlerInv, WriteFile
    PROVE  /\ handler.upload \in Uploads /\ handler.upload.content \in Paths
           /\ handler.upload.content \notin SampleFiles
           /\ file' = [file EXCEPT ![handler.upload.content] = "whole"]
           /\ handler' = [handler EXCEPT !.step = 3] /\ handler.step = 2
           /\ Free > 0
           /\ UNCHANGED <<vars, volume, requests, origin, torn, cut, rewriters, crowded, starved, replies>>
<1>1. handler.upload \in Uploads
  BY HandlerFacts DEF WriteFile
<1>2. handler.upload.content \in Contents /\ handler.upload.content \notin SampleFiles
  BY <1>1, UploadsAssumption
<1>3. QED
  BY <1>1, <1>2, HandlerFacts DEF WriteFile, FileOf, Paths

\* What changes neither a file nor whose jobs are live keeps the files whole.
LEMMA FilesKept ==
    ASSUME FilesInv, UNCHANGED <<file, rewriters>>, Live' \subseteq Live,
           \A j \in Live : origin'[j] = origin[j],
           handler' = handler \/ handler' = NotHandling \/ handler'.step = 1
    PROVE  FilesInv'
<1>1. HandlerAt("submit")' => HandlerAt("submit") /\ handler' = handler
  BY DEF HandlerAt, HandlerSteps, NotHandling
<1>2. QED
  BY <1>1 DEF FilesInv, FileOf

LEMMA FilesStep ==
    TypeOK /\ IInv /\ HandlerInv /\ UploadTypeOK /\ FilesInv /\ [UploadNext]_allVars => FilesInv'
<1> SUFFICES ASSUME TypeOK, IInv, HandlerInv, UploadTypeOK, FilesInv, [UploadNext]_allVars
             PROVE  FilesInv'
  OBVIOUS
<1>1. CASE \E u \in Uploads : Admit(u)
  <2>1. PICK u \in Uploads : Admit(u)
    BY <1>1
  <2>2. UNCHANGED <<file, rewriters, origin, state>> /\ handler'.step = 1
    BY <2>1 DEF Admit, vars, recordVars
  <2>3. QED
    BY <2>2, FilesKept DEF Live
<1>2. CASE OpenFile
  <2> DEFINE p == handler.upload.content
  <2>1. /\ p \in Contents /\ p \in Paths /\ file' = [file EXCEPT ![p] = "cut"]
        /\ \A j \in Jobs : rewriters'[j] = rewriters[j] \cup
                               IF j \in Ingesting(p) THEN {handler.upload} ELSE {}
        /\ UNCHANGED <<state, origin>> /\ handler'.step = 2
    BY <1>2, OpenFacts DEF vars, recordVars, HandlerInv, NotHandling
  <2>2. p \notin SampleFiles
    BY <2>1, UploadsAssumption
  <2>3. \A q \in SampleFiles : file'[q] = "whole"
    BY <2>1, <2>2 DEF FilesInv, UploadTypeOK, Paths
  <2>4. ~HandlerAt("submit")'
    BY <2>1 DEF HandlerAt, HandlerSteps
  <2>5. ASSUME NEW j \in Live PROVE file'[FileOf(origin[j])] = "whole" \/ rewriters'[j] # {}
    <3>1. CASE FileOf(origin[j]) = p
      BY <2>1, <2>5, <3>1 DEF Ingesting, Live
    <3>2. CASE FileOf(origin[j]) # p
      <4>1. file[FileOf(origin[j])] = "whole" => file'[FileOf(origin[j])] = "whole"
        BY <2>1, <3>2 DEF UploadTypeOK
      <4>2. rewriters[j] # {} => rewriters'[j] # {}
        BY <2>1, <2>5 DEF Live
      <4>3. QED
        BY <2>5, <4>1, <4>2 DEF FilesInv
    <3>3. QED
      BY <3>1, <3>2
  <2>6. Live' = Live
    BY <2>1 DEF Live
  <2>7. QED
    BY <2>1, <2>3, <2>4, <2>5, <2>6 DEF FilesInv, FileOf
<1>3. CASE WriteFile
  <2> DEFINE p == handler.upload.content
  <2>1. /\ p \in Paths /\ file' = [file EXCEPT ![p] = "whole"]
        /\ UNCHANGED <<state, origin, rewriters>> /\ handler'.upload.content = p
    BY <1>3, WriteFacts DEF vars, recordVars, HandlerInv, NotHandling
  <2>2. \A q : file[q] = "whole" => file'[q] = "whole"
    BY <2>1 DEF UploadTypeOK
  <2>3. file'[p] = "whole"
    BY <2>1 DEF UploadTypeOK
  <2>4. Live' = Live
    BY <2>1 DEF Live
  <2>5. QED
    BY <2>1, <2>2, <2>3, <2>4 DEF FilesInv, FileOf
<1>4. CASE WriteFails
  BY <1>4, FilesKept DEF WriteFails, vars, recordVars, Live
<1>5. ASSUME NEW u \in AllRequests, SubmitRequest(u), file[FileOf(u)] = "whole",
             handler' = NotHandling, UNCHANGED <<file, rewriters>>
      PROVE  FilesInv'
  <2>1. CASE UNCHANGED <<vars, origin>>
    BY <1>5, <2>1, FilesKept DEF vars, recordVars, Live
  <2>2. ASSUME NEW j \in Jobs, SubmitIngest(j, Key(u), IdOf[NameOf(u)]),
               origin' = [origin EXCEPT ![j] = u]
        PROVE  FilesInv'
    <3>1. state[j] = "absent" /\ state' = [state EXCEPT ![j] = "queued"]
      BY <2>2, NewJob
    <3>2. \A i \in Live' : i = j \/ (i \in Live /\ origin'[i] = origin[i])
      BY <2>2, <3>1 DEF Live, TypeOK, UploadTypeOK
    <3>3. origin'[j] = u
      BY <2>2 DEF UploadTypeOK
    <3>4. ~HandlerAt("submit")'
      BY <1>5 DEF HandlerAt, NotHandling
    <3>5. ASSUME NEW i \in Live' PROVE file'[FileOf(origin'[i])] = "whole" \/ rewriters'[i] # {}
      BY <1>5, <3>2, <3>3, <3>5 DEF FilesInv
    <3>6. QED
      BY <1>5, <3>4, <3>5 DEF FilesInv, FileOf
  <2>3. QED
    BY <1>5, <2>1, <2>2 DEF SubmitRequest
<1>6. CASE SubmitUpload
  <2>1. /\ handler.upload \in AllRequests /\ SubmitRequest(handler.upload)
        /\ handler' = NotHandling /\ UNCHANGED <<file, rewriters>>
    BY <1>6, HandlerFacts DEF SubmitUpload, AllRequests
  <2>2. file[FileOf(handler.upload)] = "whole"
    BY <1>6 DEF SubmitUpload, FilesInv
  <2>3. QED
    BY <1>5, <2>1, <2>2
<1>7. CASE \E u \in Samples : LoadSample(u)
  <2>1. PICK u \in Samples : LoadSample(u)
    BY <1>7
  <2>2. /\ u \in AllRequests /\ SubmitRequest(u)
        /\ handler' = NotHandling /\ UNCHANGED <<file, rewriters>>
    BY <2>1 DEF LoadSample, Serves, AllRequests
  <2>3. file[FileOf(u)] = "whole"
    BY UploadsAssumption DEF FilesInv, FileOf
  <2>4. QED
    BY <1>5, <2>2, <2>3
<1>8. ASSUME NEW j \in Jobs, UploadLoop(j) \/ (Dispatch(j) /\ UNCHANGED uploadVars) PROVE FilesInv'
  BY <1>8, LoopFacts, FilesKept DEF UploadLoop, uploadVars
<1>9. ASSUME NEW j \in Jobs, UploadWorker(j) PROVE FilesInv'
  BY <1>9, WorkerFacts, FilesKept
<1>10. CASE UNCHANGED allVars
  BY <1>10, FilesKept DEF allVars, vars, recordVars, uploadVars, Live
<1>11. QED
  BY <1>1, <1>2, <1>3, <1>4, <1>6, <1>7, <1>8, <1>9, <1>10 DEF UploadNext, Handler

\* What leaves the rewriters and the requests of the jobs alone, and lets no job
\* read a file that nobody emptied.
LEMMA RewritersKept ==
    ASSUME RewriteInv, rewriters' = rewriters,
           \A j \in Jobs : state'[j] = "absent" => state[j] = "absent",
           \A j \in Jobs : state[j] # "absent" => origin'[j] = origin[j],
           \A j \in (torn \cup cut)' : j \in torn \cup cut \/ rewriters[j] # {}
    PROVE  RewriteInv'
<1>1. ASSUME NEW j \in Jobs, NEW u \in rewriters[j] PROVE u.content = origin'[j].content
  BY DEF RewriteInv
<1>2. \A j \in (torn \cup cut)' : rewriters[j] # {}
  BY DEF RewriteInv
<1>3. \A j \in Jobs : state'[j] = "absent" => rewriters[j] = {}
  BY DEF RewriteInv
<1>4. QED
  BY <1>1, <1>2, <1>3 DEF RewriteInv

LEMMA RewriteStep ==
    TypeOK /\ IInv /\ HandlerInv /\ UploadTypeOK /\ FilesInv /\ RewriteInv
        /\ [UploadNext]_allVars => RewriteInv'
<1> SUFFICES ASSUME TypeOK, IInv, HandlerInv, UploadTypeOK, FilesInv, RewriteInv,
                    [UploadNext]_allVars
             PROVE  RewriteInv'
  OBVIOUS
<1>1. ASSUME UNCHANGED <<rewriters, torn, cut, origin>>,
             \A j \in Jobs : state'[j] = "absent" => state[j] = "absent"
      PROVE  RewriteInv'
  BY <1>1, RewritersKept
<1>2. CASE \E u \in Uploads : Admit(u)
  BY <1>1, <1>2 DEF Admit, vars, recordVars
<1>3. CASE OpenFile
  <2> DEFINE p == handler.upload.content
  <2>1. /\ torn' = torn \cup Reading(p) /\ UNCHANGED <<state, origin, cut>>
        /\ \A j \in Jobs : rewriters'[j] = rewriters[j] \cup
                               IF j \in Ingesting(p) THEN {handler.upload} ELSE {}
    BY <1>3, OpenFacts DEF vars, recordVars
  <2>2. \A j \in Ingesting(p) : j \in Jobs /\ state[j] # "absent" /\ origin[j].content = p
    BY DEF Ingesting, Live, FileOf
  <2>3. ASSUME NEW j \in Jobs, state'[j] = "absent" PROVE rewriters'[j] = {}
    BY <2>1, <2>2, <2>3 DEF RewriteInv
  <2>4. ASSUME NEW j \in torn' \cup cut' PROVE rewriters'[j] # {}
    <3>1. CASE j \in torn \cup cut
      BY <2>1, <3>1 DEF RewriteInv, UploadTypeOK
    <3>2. CASE j \in Reading(p)
      BY <2>1, <2>2, <3>2 DEF Reading
    <3>3. QED
      BY <2>1, <2>4, <3>1, <3>2
  <2>5. ASSUME NEW j \in Jobs, NEW u \in rewriters'[j] PROVE u.content = origin'[j].content
    BY <2>1, <2>2, <2>5 DEF RewriteInv
  <2>6. QED
    BY <2>3, <2>4, <2>5 DEF RewriteInv
<1>4. CASE WriteFile \/ WriteFails
  BY <1>1, <1>4 DEF WriteFile, WriteFails, vars, recordVars
<1>5. ASSUME NEW u \in AllRequests, Submits(u), UNCHANGED rewriters PROVE RewriteInv'
  <2>1. CASE UNCHANGED <<vars, origin>>
    BY <1>1, <1>5, <2>1 DEF Submits, vars, recordVars
  <2>2. ASSUME NEW j \in Jobs, SubmitIngest(j, Key(u), IdOf[NameOf(u)]),
               origin' = [origin EXCEPT ![j] = u]
        PROVE  RewriteInv'
    <3>1. state[j] = "absent" /\ state' = [state EXCEPT ![j] = "queued"]
      BY <2>2, NewJob
    <3>2. \A i \in Jobs : state'[i] = "absent" => state[i] = "absent"
      BY <3>1 DEF TypeOK
    <3>3. \A i \in Jobs : state[i] # "absent" => origin'[i] = origin[i]
      BY <2>2, <3>1 DEF UploadTypeOK
    <3>4. QED
      BY <1>5, <3>2, <3>3, RewritersKept DEF Submits
  <2>3. QED
    BY <1>5, <2>1, <2>2 DEF Submits, SubmitRequest
<1>6. CASE Kept /\ UNCHANGED <<rewriters, torn, cut>>
  BY <1>1, <1>6 DEF Kept
<1>7. ASSUME NEW j \in Jobs, NEW s \in Stages, EndStage(j, s) PROVE RewriteInv'
  <2>1. worker[j] = "working" /\ UNCHANGED <<state, origin, rewriters, file>>
    BY <1>7 DEF EndStage, PassBoundary, recordVars
  <2>2. j \in Live
    BY <2>1 DEF IInv, RecordInv, Live
  <2>3. cut' \subseteq cut \cup torn
    BY <1>7 DEF EndStage
  <2>4. \/ torn' = torn \ {j}
        \/ torn' = torn \cup {j} /\ file[FileOf(origin[j])] # "whole"
    BY <1>7 DEF EndStage
  <2>5. \A i \in (torn \cup cut)' : i \in torn \cup cut \/ rewriters[i] # {}
    BY <2>2, <2>3, <2>4 DEF FilesInv
  <2>6. QED
    BY <2>1, <2>5, RewritersKept
<1>8. ASSUME NEW j \in Jobs, Starve(j) \/ EndOfWork(j) PROVE RewriteInv'
  BY <1>1, <1>8 DEF Starve, EndOfWork, WorkFails, WorkReturns, EndWork, recordVars, uploadVars
<1>9. ASSUME NEW j \in Jobs, UploadLoop(j) \/ (Dispatch(j) /\ UNCHANGED uploadVars) PROVE RewriteInv'
  BY <1>1, <1>9, LoopFacts DEF UploadLoop, uploadVars
<1>10. CASE UNCHANGED allVars
  BY <1>1, <1>10 DEF allVars, vars, recordVars, uploadVars
<1>11. CASE SubmitUpload \/ \E u \in Samples : LoadSample(u)
  <2>1. UNCHANGED rewriters
    BY <1>11 DEF SubmitUpload, LoadSample
  <2>2. CASE Kept
    BY <1>6, <1>11, <2>1, <2>2 DEF SubmitUpload, LoadSample
  <2>3. QED
    BY <1>5, <2>1, <2>2, StepCases
<1>12. QED
  BY <1>2, <1>3, <1>4, <1>7, <1>8, <1>9, <1>10, <1>11 DEF UploadNext, Handler, UploadWorker

-----------------------------------------------------------------------------
(* Types. *)

LEMMA UploadTypeStep ==
    TypeOK /\ IInv /\ HandlerInv /\ UploadTypeOK /\ [UploadNext]_allVars => UploadTypeOK'
<1> SUFFICES ASSUME TypeOK, IInv, HandlerInv, UploadTypeOK, [UploadNext]_allVars
             PROVE  UploadTypeOK'
  OBVIOUS
<1>0. handler' \in [upload : Uploads \cup {NoUpload}, step : 0..Len(HandlerSteps)]
  <2>1. HandlerInv'
    BY HandlerStep
  <2>2. Len(HandlerSteps) = 3
    BY HandlerSteps3
  <2>3. QED
    BY <2>1, <2>2 DEF HandlerInv, NotHandling
<1>1. ASSUME UNCHANGED <<volume, file, requests, origin, torn, cut, rewriters, crowded, starved, replies>>
      PROVE  UploadTypeOK'
  BY <1>0, <1>1 DEF UploadTypeOK
<1>2. CASE \E u \in Uploads : Admit(u)
  <2>1. /\ UNCHANGED <<volume, file, origin, torn, cut, rewriters, starved, replies>>
        /\ requests < MaxRequests /\ requests' = requests + 1 /\ crowded' = crowded \cup Live
    BY <1>2 DEF Admit, Serves
  <2>2. requests' \in 0..MaxRequests
    BY <2>1, UploadsAssumption DEF UploadTypeOK
  <2>3. crowded' \subseteq Jobs
    BY <2>1 DEF UploadTypeOK, Live
  <2>4. QED
    BY <1>0, <2>1, <2>2, <2>3 DEF UploadTypeOK
<1>3. CASE OpenFile
  <2> DEFINE p == handler.upload.content
  <2>1. /\ p \in Paths /\ file' = [file EXCEPT ![p] = "cut"]
        /\ torn' = torn \cup Reading(p)
        /\ rewriters' \in [Jobs -> SUBSET Uploads]
        /\ UNCHANGED <<volume, requests, origin, cut, crowded, starved, replies>>
    BY <1>3, OpenFacts
  <2>2. file' \in [Paths -> {"absent", "cut", "whole"}]
    BY <2>1 DEF UploadTypeOK
  <2>3. torn' \subseteq Jobs
    BY <2>1 DEF UploadTypeOK, Reading, Working
  <2>4. QED
    BY <1>0, <2>1, <2>2, <2>3 DEF UploadTypeOK
<1>4. CASE WriteFile
  <2>1. file' \in [Paths -> {"absent", "cut", "whole"}]
    BY <1>4, WriteFacts DEF UploadTypeOK
  <2>2. QED
    BY <1>0, <1>4, <2>1, WriteFacts DEF UploadTypeOK
<1>5. CASE WriteFails
  BY <1>1, <1>5 DEF WriteFails
<1>6. ASSUME NEW u \in AllRequests, NEW j \in Jobs, NEW reused \in BOOLEAN, Reply(u, j, reused)
      PROVE  replies' \subseteq [request : AllRequests, job : Jobs, reused : BOOLEAN, stale : BOOLEAN]
  <2>1. PICK st \in BOOLEAN : st = (/\ state[j] = "succeeded" /\ store[dataset[j]] # NoJob
                                    /\ origin[store[dataset[j]]].content # origin[j].content)
    OBVIOUS
  <2>2. replies' = replies \cup {[request |-> u, job |-> j, reused |-> reused, stale |-> st]}
    BY <1>6, <2>1 DEF Reply
  <2>3. QED
    BY <1>6, <2>2 DEF UploadTypeOK
<1>7. ASSUME NEW u \in AllRequests, SubmitRequest(u)
      PROVE  /\ origin' \in [Jobs -> AllRequests \cup {NoUpload}]
             /\ crowded' \subseteq Jobs
             /\ replies' \subseteq [request : AllRequests, job : Jobs, reused : BOOLEAN, stale : BOOLEAN]
  <2>1. CASE /\ Reusable(Key(u)) /\ Reply(u, idempotency[Key(u)], TRUE)
             /\ UNCHANGED <<vars, origin, crowded>>
    <3>1. Key(u) \in Keys
      BY KeyFacts
    <3>2. idempotency[Key(u)] \in JobOrNone /\ idempotency[Key(u)] # NoJob
      BY <2>1, <3>1 DEF Reusable, TypeOK
    <3>3. idempotency[Key(u)] \in Jobs
      BY <3>2, SomeJob
    <3>4. QED
      BY <1>6, <2>1, <3>3 DEF UploadTypeOK
  <2>2. ASSUME NEW j \in Jobs, origin' = [origin EXCEPT ![j] = u], Reply(u, j, FALSE),
               crowded' = IF Live = {} THEN crowded ELSE crowded \cup Live \cup {j}
        PROVE  /\ origin' \in [Jobs -> AllRequests \cup {NoUpload}]
               /\ crowded' \subseteq Jobs
               /\ replies' \subseteq [request : AllRequests, job : Jobs, reused : BOOLEAN, stale : BOOLEAN]
    <3>1. crowded' \subseteq Jobs
      BY <2>2 DEF UploadTypeOK, Live
    <3>2. QED
      BY <1>6, <2>2, <3>1 DEF UploadTypeOK
  <2>3. QED
    BY <1>7, <2>1, <2>2 DEF SubmitRequest
<1>8. CASE SubmitUpload
  <2>1. /\ handler.upload \in AllRequests /\ SubmitRequest(handler.upload)
        /\ UNCHANGED <<volume, file, requests, torn, cut, rewriters, starved>>
    BY <1>8, HandlerFacts DEF SubmitUpload, AllRequests
  <2>2. QED
    BY <1>0, <1>7, <2>1 DEF UploadTypeOK
<1>9. CASE \E u \in Samples : LoadSample(u)
  <2>1. PICK u \in Samples : LoadSample(u)
    BY <1>9
  <2>2. /\ u \in AllRequests /\ SubmitRequest(u) /\ requests < MaxRequests /\ requests' = requests + 1
        /\ UNCHANGED <<volume, file, torn, cut, rewriters, starved>>
    BY <2>1 DEF LoadSample, Serves, AllRequests
  <2>3. requests' \in 0..MaxRequests
    BY <2>2, UploadsAssumption DEF UploadTypeOK
  <2>4. QED
    BY <1>0, <1>7, <2>2, <2>3 DEF UploadTypeOK
<1>10. ASSUME NEW j \in Jobs, UploadLoop(j) \/ (Dispatch(j) /\ UNCHANGED uploadVars) \/ EndOfWork(j)
       PROVE  UploadTypeOK'
  BY <1>1, <1>10 DEF UploadLoop, EndOfWork, uploadVars
<1>11. ASSUME NEW j \in Jobs, NEW s \in Stages, EndStage(j, s) PROVE UploadTypeOK'
  BY <1>0, <1>11 DEF EndStage, UploadTypeOK
<1>12. ASSUME NEW j \in Jobs, Starve(j) PROVE UploadTypeOK'
  BY <1>0, <1>12 DEF Starve, UploadTypeOK
<1>13. CASE UNCHANGED allVars
  BY <1>1, <1>13 DEF allVars, uploadVars
<1>14. QED
  BY <1>2, <1>3, <1>4, <1>5, <1>8, <1>9, <1>10, <1>11, <1>12, <1>13
     DEF UploadNext, Handler, UploadWorker

-----------------------------------------------------------------------------
(* The space that is left. *)

\* The three parts of the space used are finite sets.
LEMMA Sizes ==
    ASSUME TypeOK, UploadTypeOK, IsFiniteSet(Whole)
    PROVE  /\ Used = Cardinality(Whole) + Cardinality(Staged) + Cardinality(Promoted)
           /\ Cardinality(Whole) \in Nat /\ Cardinality(Staged) \in Nat
           /\ Cardinality(Promoted) \in Nat
           /\ Used \in Nat /\ volume \in Nat /\ Floor \in Nat
<1>1. IsFiniteSet(Jobs)
  BY ConstantsAssumption, FS_Interval DEF Jobs
<1>2. IsFiniteSet(Staged)
  BY <1>1, FS_Subset DEF Staged, Working
<1>3. IsFiniteSet(Promoted)
  <2> DEFINE S == {j \in Jobs : outcome[j] = "succeeded"}
             f == [j \in S |-> dataset[j]]
  <2>1. IsFiniteSet(S)
    BY <1>1, FS_Subset
  <2>2. f \in Surjection(S, Promoted)
    BY DEF Surjection, Promoted
  <2> HIDE DEF S, f
  <2>3. QED
    BY <2>1, <2>2, FS_Surjection
<1>4. /\ Cardinality(Whole) \in Nat /\ Cardinality(Staged) \in Nat
      /\ Cardinality(Promoted) \in Nat
  BY <1>2, <1>3, FS_CardinalityType
<1>5. Used = Cardinality(Whole) + Cardinality(Staged) + Cardinality(Promoted)
  BY DEF Used, Whole
<1>6. QED
  BY <1>4, <1>5, UploadsAssumption DEF UploadTypeOK

\* What the free space says.
LEMMA FreeFacts ==
    ASSUME TypeOK, UploadTypeOK, IsFiniteSet(Whole)
    PROVE  /\ Fits => Used + Floor + 1 <= volume
           /\ Free = 0 => volume <= Used
<1>1. Used \in Nat /\ volume \in Nat /\ Floor \in Nat
  BY Sizes
<1>2. QED
  BY <1>1 DEF Fits, Free

\* The tables that are staged are those of live jobs, and no work that has yet
\* to be dispatched has one.
LEMMA StagedFacts ==
    ASSUME TypeOK, IInv, OriginInv
    PROVE  /\ Staged = {j \in Working : at[j] \in Stages \ {"sniffing", "loading"}}
           /\ Working \subseteq Live
<1>1. \A j \in Jobs : kind[j] = "ingest"
  BY DEF OriginInv
<1>2. Staged = {j \in Working : at[j] \in Stages \ {"sniffing", "loading"}}
  BY <1>1 DEF Staged, Working
<1>3. QED
  BY <1>2 DEF Working, Live, IInv, RecordInv

\* The part of the promise on space that speaks of no budget.
SpaceBasics ==
    /\ IsFiniteSet(Whole)
    /\ \A j \in Jobs : worker[j] \in {"none", "queued"} => at[j] = "enter"
    /\ \A j \in starved : state[j] # "absent"

LEMMA BasicsStep ==
    TypeOK /\ IInv /\ HandlerInv /\ UploadTypeOK /\ OriginInv /\ SpaceBasics
        /\ [UploadNext]_allVars => SpaceBasics'
<1> SUFFICES ASSUME TypeOK, IInv, HandlerInv, UploadTypeOK, OriginInv, SpaceBasics,
                    [UploadNext]_allVars
             PROVE  SpaceBasics'
  OBVIOUS
<1>1. IsFiniteSet(Whole')
  <2>1. CASE file' = file
    BY <2>1 DEF Whole, SpaceBasics
  <2>2. CASE OpenFile \/ WriteFile
    <3>1. PICK q : Whole' \subseteq Whole \cup {q}
      <4>1. CASE OpenFile
        BY <4>1, OpenFacts DEF Whole, UploadTypeOK
      <4>2. CASE WriteFile
        BY <4>2, WriteFacts DEF Whole, UploadTypeOK
      <4>3. QED
        BY <2>2, <4>1, <4>2
    <3>2. IsFiniteSet(Whole \cup {q})
      BY FS_AddElement DEF SpaceBasics
    <3>3. QED
      BY <3>1, <3>2, FS_Subset
  <2>3. file' = file \/ OpenFile \/ WriteFile
    BY WorkerFacts DEF UploadNext, Handler, Admit, WriteFails, SubmitUpload, LoadSample, UploadLoop,
                       uploadVars, allVars
  <2>4. QED
    BY <2>1, <2>2, <2>3
<1>2. ASSUME NEW j \in Jobs, worker'[j] \in {"none", "queued"} PROVE at'[j] = "enter"
  <2>1. CASE UNCHANGED <<worker, at>>
    BY <1>2, <2>1 DEF SpaceBasics
  <2>2. ASSUME NEW i \in Jobs, Loop(i) \/ Dispatch(i) PROVE at'[j] = "enter"
    BY <1>2, <2>2, LoopFacts DEF SpaceBasics
  <2>3. ASSUME NEW i \in Jobs, UploadWorker(i) PROVE at'[j] = "enter"
    <3>1. /\ worker[i] = "working"
          /\ \/ worker' = worker /\ \E s \in Stages : at' = [at EXCEPT ![i] = s]
             \/ at' = at /\ worker' = [worker EXCEPT ![i] = "returned"]
      BY <2>3 DEF UploadWorker, EndStage, PassBoundary, Starve, EndOfWork, WorkFails, WorkReturns,
                  EndWork
    <3>2. QED
      BY <1>2, <3>1 DEF SpaceBasics, TypeOK
  <2>4. ASSUME NEW u \in AllRequests, SubmitRequest(u) PROVE at'[j] = "enter"
    BY <2>1, <2>4 DEF SubmitRequest, SubmitIngest, vars, workVars
  <2>5. CASE SubmitUpload
    BY <2>4, <2>5, HandlerFacts DEF SubmitUpload, AllRequests
  <2>6. CASE \E u \in Samples : LoadSample(u)
    BY <2>4, <2>6 DEF LoadSample, AllRequests
  <2>7. CASE (\E u \in Uploads : Admit(u)) \/ OpenFile \/ WriteFile \/ WriteFails
    BY <2>1, <2>7, HandlerQuiet DEF vars, workVars
  <2>8. CASE UNCHANGED allVars
    BY <2>1, <2>8 DEF allVars, vars, workVars
  <2>9. QED
    BY <2>2, <2>3, <2>5, <2>6, <2>7, <2>8 DEF UploadNext, Handler, UploadLoop
<1>3. ASSUME NEW j \in starved' PROVE state'[j] # "absent"
  <2>1. CASE j \in starved
    <3>1. j \in Jobs
      BY <2>1 DEF UploadTypeOK
    <3>2. [Next]_vars
      BY ManagerStep DEF OnlyIngests, OriginInv
    <3>3. QED
      BY <2>1, <3>1, <3>2, StateSteps DEF SpaceBasics
  <2>2. ASSUME NEW i \in Jobs, Starve(i) PROVE state'[i] # "absent"
    BY <2>2 DEF Starve, EndWork, recordVars, IInv, RecordInv
  <2>3. starved' = starved \/ \E i \in Jobs : Starve(i) /\ starved' = starved \cup {i}
    BY DEF UploadNext, Handler, Admit, OpenFile, WriteFile, WriteFails, SubmitUpload, LoadSample,
           UploadLoop, UploadWorker, EndStage, Starve, EndOfWork, uploadVars, allVars
  <2>4. QED
    BY <1>3, <2>1, <2>2, <2>3
<1>4. QED
  BY <1>1, <1>2, <1>3 DEF SpaceBasics, Whole

\* The space used depends on the files, the staged tables and the datasets.
LEMMA UsedKept ==
    ASSUME UNCHANGED <<file, dataset, outcome>>, Staged' = Staged
    PROVE  Used' = Used
  BY DEF Used, Promoted

\* The work that is dispatched is that of a live job at its beginning.
LEMMA DispatchFacts ==
    ASSUME TypeOK, IInv, OriginInv, SpaceBasics, NEW j \in Jobs, Dispatch(j)
    PROVE  /\ j \in Live /\ Live' = Live /\ Staged' = Staged
           /\ UNCHANGED <<requestVars, recordVars, at, outcome>>
           /\ worker' = [worker EXCEPT ![j] = "working"]
<1>1. pool # <<>> /\ j = Head(pool) /\ worker' = [worker EXCEPT ![j] = "working"]
      /\ UNCHANGED <<requestVars, recordVars, at, outcome>>
  BY DEF Dispatch
<1>2. worker[j] = "queued"
  <2>1. Head(pool) = pool[1] /\ 1 \in 1..Len(pool)
    BY <1>1, TailFacts DEF TypeOK
  <2>2. QED
    BY <1>1, <2>1 DEF IInv, PoolInv
<1>3. j \in Live
  BY <1>2 DEF IInv, RecordInv, Live
<1>4. at[j] = "enter" /\ "enter" \notin Stages
  BY <1>2, ConstantsAssumption DEF SpaceBasics
<1>5. Staged' = Staged
  BY <1>1, <1>2, <1>4 DEF Staged, Working, TypeOK, requestVars
<1>6. QED
  BY <1>1, <1>3, <1>5 DEF recordVars, Live

\* A callback of the loop stages nothing.
LEMMA LoopStaged ==
    ASSUME TypeOK, IInv, OriginInv, SpaceBasics, NEW j \in Jobs, Loop(j)
    PROVE  Staged' = Staged
<1>1. UNCHANGED <<kind, at>>
  BY LoopFacts DEF requestVars
<1>2. CASE Dispatch(j)
  BY <1>2, DispatchFacts
<1>3. CASE ~Dispatch(j)
  <2>1. Working' = Working
    BY <1>3, LoopFacts DEF Working
  <2>2. QED
    BY <1>1, <2>1 DEF Staged
<1>4. QED
  BY <1>2, <1>3

\* A set grows and shrinks by one element at a time.
LEMMA OneLess ==
    ASSUME NEW S, IsFiniteSet(S), NEW x
    PROVE  Cardinality(S \ {x}) \in Nat /\ Cardinality(S \ {x}) <= Cardinality(S)
<1>1. IsFiniteSet(S \ {x}) /\ (S \ {x}) \in SUBSET S
  BY FS_RemoveElement
<1>2. QED
  BY <1>1, FS_Subset, FS_CardinalityType

LEMMA OneMore ==
    ASSUME NEW S, IsFiniteSet(S), NEW x
    PROVE  Cardinality(S \cup {x}) \in Nat /\ Cardinality(S \cup {x}) <= Cardinality(S) + 1
<1>1. Cardinality(S) \in Nat
  BY FS_CardinalityType
<1>2. Cardinality(S \cup {x}) = IF x \in S THEN Cardinality(S) ELSE Cardinality(S) + 1
  BY FS_AddElement
<1>3. QED
  BY <1>1, <1>2

LEMMA Budget ==
    ASSUME NEW a \in Nat, NEW b \in Nat, NEW f \in Nat, NEW v \in Nat, b + f + 1 <= v
    PROVE  /\ a <= b => a + f + 1 <= v
           /\ a <= b + 1 => a + f + 0 <= v
  OBVIOUS

LEMMA HandlerBudgetStep ==
    ASSUME TypeOK, IInv, HandlerInv, UploadTypeOK, OriginInv, SpaceBasics, HandlerBudget,
           [UploadNext]_allVars
    PROVE  HandlerBudget'
<1>0. /\ Used = Cardinality(Whole) + Cardinality(Staged) + Cardinality(Promoted)
      /\ Cardinality(Whole) \in Nat /\ Cardinality(Staged) \in Nat
      /\ Cardinality(Promoted) \in Nat /\ Used \in Nat /\ volume \in Nat /\ Floor \in Nat
  BY Sizes DEF SpaceBasics
<1>1. CASE handler' = NotHandling
  BY <1>1 DEF HandlerBudget
<1>2. CASE \E u \in Uploads : Admit(u)
  <2>1. Fits /\ handler'.step = 1 /\ UNCHANGED <<vars, volume, file>>
    BY <1>2 DEF Admit
  <2>2. Used' = Used /\ ~HandlerAt("submit")'
    BY <2>1, UsedKept DEF vars, requestVars, workVars, Staged, Working, HandlerAt, HandlerSteps
  <2>3. Used + Floor + 1 <= volume
    BY <2>1, FreeFacts DEF SpaceBasics
  <2>4. QED
    BY <2>1, <2>2, <2>3 DEF HandlerBudget
<1>3. CASE OpenFile
  <2>1. /\ file' = [file EXCEPT ![handler.upload.content] = "cut"]
        /\ handler'.step = 2 /\ handler.step = 1 /\ UNCHANGED <<vars, volume>>
    BY <1>3, OpenFacts DEF HandlerInv, NotHandling
  <2>2. Whole' = Whole \ {handler.upload.content}
    BY <2>1, <1>3, OpenFacts DEF Whole, UploadTypeOK
  <2>3. Cardinality(Whole') \in Nat /\ Cardinality(Whole') <= Cardinality(Whole)
    BY <2>2, OneLess DEF SpaceBasics
  <2>4. Used' = Cardinality(Whole') + Cardinality(Staged) + Cardinality(Promoted)
    BY <2>1 DEF Used, Whole, Staged, Promoted, Working, vars, requestVars, workVars
  <2>5. Used' <= Used
    BY <1>0, <2>3, <2>4
  <2>6. ~HandlerAt("submit") /\ ~HandlerAt("submit")' /\ handler # NotHandling
    BY <2>1 DEF HandlerAt, HandlerSteps, NotHandling
  <2>7. Used' \in Nat
    BY <1>0, <2>3, <2>4
  <2>8. Live' = Live
    BY <2>1 DEF Live, vars, recordVars
  <2>9. Live = {} => Used + Floor + 1 <= volume
    BY <2>6 DEF HandlerBudget
  <2>10. ASSUME Live = {} PROVE Used' + Floor + 1 <= volume
    <3>1. Used + Floor + 1 <= volume
      BY <2>9, <2>10
    <3>2. Used \in Nat /\ volume \in Nat /\ Floor \in Nat
      BY <1>0
    <3>3. Used' <= Used => Used' + Floor + 1 <= volume
      BY <2>7, <3>1, <3>2, Budget, Zenon
    <3>4. QED
      BY <2>5, <3>3, Zenon
  <2>11. QED
    BY <2>1, <2>6, <2>8, <2>10 DEF HandlerBudget
<1>4. CASE WriteFile
  <2>1. /\ file' = [file EXCEPT ![handler.upload.content] = "whole"]
        /\ handler'.step = 3 /\ handler.step = 2 /\ UNCHANGED <<vars, volume>>
    BY <1>4, WriteFacts DEF HandlerInv, NotHandling
  <2>2. Whole' = Whole \cup {handler.upload.content}
    BY <2>1, <1>4, WriteFacts DEF Whole, UploadTypeOK
  <2>3. Cardinality(Whole') \in Nat /\ Cardinality(Whole') <= Cardinality(Whole) + 1
    BY <2>2, OneMore DEF SpaceBasics
  <2>4. Used' = Cardinality(Whole') + Cardinality(Staged) + Cardinality(Promoted)
    BY <2>1 DEF Used, Whole, Staged, Promoted, Working, vars, requestVars, workVars
  <2>5. Used' <= Used + 1 /\ Used' \in Nat
    BY <1>0, <2>3, <2>4
  <2>6. ~HandlerAt("submit") /\ HandlerAt("submit")' /\ handler # NotHandling
    BY <2>1 DEF HandlerAt, HandlerSteps, NotHandling
  <2>7. Live' = Live
    BY <2>1 DEF Live, vars, recordVars
  <2>8. Live = {} => Used + Floor + 1 <= volume
    BY <2>6 DEF HandlerBudget
  <2>9. ASSUME Live = {} PROVE Used' + Floor + 0 <= volume
    <3>1. Used + Floor + 1 <= volume
      BY <2>8, <2>9
    <3>2. QED
      BY <1>0, <2>5, <3>1, Budget, Zenon
  <2>10. QED
    BY <2>1, <2>6, <2>7, <2>9 DEF HandlerBudget
<1>5. ASSUME NEW j \in Jobs, Dispatch(j) /\ UNCHANGED uploadVars PROVE HandlerBudget'
  <2>1. Live' # {}
    BY <1>5, DispatchFacts
  <2>2. QED
    BY <2>1 DEF HandlerBudget
<1>6. ASSUME NEW j \in Jobs, UploadWorker(j) PROVE HandlerBudget'
  <2>1. worker[j] = "working" /\ Live' = Live
    BY <1>6, WorkerFacts
  <2>2. j \in Live
    BY <2>1, StagedFacts DEF Working
  <2>3. QED
    BY <2>1, <2>2 DEF HandlerBudget
<1>7. CASE UNCHANGED allVars
  <2>1. Used' = Used /\ Live' = Live /\ UNCHANGED <<handler, volume>>
    BY <1>7, UsedKept DEF allVars, uploadVars, vars, requestVars, recordVars, workVars, Staged,
                          Working, Live
  <2>2. QED
    BY <2>1 DEF HandlerBudget, HandlerAt
<1>8. CASE WriteFails \/ SubmitUpload \/ \E u \in Samples : LoadSample(u)
  BY <1>1, <1>8, HandlerFacts DEF WriteFails, SubmitUpload, LoadSample, Serves
<1>9. ASSUME NEW j \in Jobs, UploadLoop(j) PROVE HandlerBudget'
  BY <1>1, <1>9 DEF UploadLoop, uploadVars
<1>10. QED
  BY <1>2, <1>3, <1>4, <1>5, <1>6, <1>7, <1>8, <1>9 DEF UploadNext, Handler

\* What the budget of a lone live job is.
LoneOK(j) ==
    /\ Live = {j}
    /\ origin[j] \notin Samples /\ worker[j] # "returned" /\ j \notin Staged
          => Used + Floor <= volume

LEMMA LoneBudgetStep ==
    ASSUME TypeOK, IInv, HandlerInv, UploadTypeOK, OriginInv, SpaceBasics, HandlerBudget,
           LoneBudget, [UploadNext]_allVars
    PROVE  LoneBudget'
<1>0. LoneBudget <=> \A j \in Live \ crowded : LoneOK(j)
  BY DEF LoneBudget, LoneOK
<1>1. ASSUME Live' \subseteq crowded' PROVE LoneBudget'
  BY <1>1 DEF LoneBudget
<1>2. ASSUME UNCHANGED <<Live, crowded, Used, volume, origin, worker, Staged>> PROVE LoneBudget'
  BY <1>2 DEF LoneBudget
<1>3. ASSUME UNCHANGED <<vars, file, origin, crowded, volume>> PROVE LoneBudget'
  <2>1. UNCHANGED <<worker, Live, Staged, dataset, outcome>>
    BY <1>3 DEF vars, requestVars, recordVars, workVars, Live, Staged, Working
  <2>2. Used' = Used
    BY <1>3, <2>1, UsedKept
  <2>3. QED
    BY <1>2, <1>3, <2>1, <2>2
<1>4. CASE \E u \in Uploads : Admit(u)
  <2>1. Live' = Live /\ crowded' = crowded \cup Live
    BY <1>4 DEF Admit, vars, recordVars, Live
  <2>2. QED
    BY <1>1, <2>1
<1>5. CASE OpenFile \/ WriteFile \/ WriteFails
  <2>1. handler # NotHandling
    BY <1>5, HandlerFacts DEF OpenFile, WriteFile, WriteFails
  <2>2. Live' = Live /\ crowded' = crowded
    BY <1>5 DEF OpenFile, WriteFile, WriteFails, vars, recordVars, Live
  <2>3. QED
    BY <1>1, <2>1, <2>2 DEF HandlerInv
<1>6. ASSUME NEW u \in AllRequests, NEW j \in Jobs, SubmitIngest(j, Key(u), IdOf[NameOf(u)]),
             origin' = [origin EXCEPT ![j] = u], UNCHANGED <<file, volume>>,
             crowded' = IF Live = {} THEN crowded ELSE crowded \cup Live \cup {j},
             u \in Samples \/ HandlerAt("submit")
      PROVE  LoneBudget'
  <2>1. /\ state[j] = "absent" /\ state' = [state EXCEPT ![j] = "queued"]
        /\ worker[j] = "none" /\ dataset' = [dataset EXCEPT ![j] = IdOf[NameOf(u)]]
        /\ UNCHANGED workVars
    BY <1>6, NewJob
  <2>2. Live' = Live \cup {j}
    BY <2>1 DEF Live, TypeOK
  <2>3. CASE Live # {}
    BY <1>1, <1>6, <2>2, <2>3
  <2>4. CASE Live = {}
    <3>1. Live' = {j}
      BY <2>2, <2>4
    <3>2. origin'[j] = u
      BY <1>6 DEF UploadTypeOK
    <3>3. Staged' = Staged
      <4>1. OriginInv /\ OriginInv'
        BY OriginStep
      <4>2. \A i \in Jobs : kind[i] = "ingest" /\ kind'[i] = "ingest"
        BY <4>1 DEF OriginInv
      <4>3. QED
        BY <2>1, <4>2 DEF Staged, Working, workVars
    <3>4. Promoted' = Promoted
      <4>1. outcome[j] = "none"
        BY <2>1 DEF IInv, RecordInv
      <4>2. \A i \in Jobs : outcome[i] = "succeeded" => dataset'[i] = dataset[i]
        BY <2>1, <4>1 DEF TypeOK
      <4>3. outcome' = outcome
        BY <2>1 DEF workVars
      <4>4. QED
        BY <4>2, <4>3 DEF Promoted
    <3>5. Used' = Used
      BY <1>6, <3>3, <3>4 DEF Used
    <3>6. ASSUME HandlerAt("submit") PROVE Used' + Floor <= volume'
      <4>1. Used + Floor + 0 <= volume
        BY <2>4, <3>6, HandlerFacts DEF HandlerBudget
      <4>2. Used \in Nat /\ Floor \in Nat /\ volume' = volume
        BY <1>6, Sizes DEF SpaceBasics
      <4>3. QED
        BY <3>5, <4>1, <4>2
    <3>7. LoneOK(j)'
      BY <1>6, <3>1, <3>2, <3>6 DEF LoneOK
    <3>8. QED
      BY <3>1, <3>7 DEF LoneBudget, LoneOK
  <2>5. QED
    BY <2>3, <2>4
<1>7. ASSUME NEW u \in AllRequests, SubmitRequest(u), UNCHANGED <<file, volume>>,
             u \in Samples \/ HandlerAt("submit")
      PROVE  LoneBudget'
  BY <1>3, <1>6, <1>7 DEF SubmitRequest
<1>8. CASE SubmitUpload
  <2>1. /\ handler.upload \in AllRequests /\ SubmitRequest(handler.upload)
        /\ HandlerAt("submit") /\ UNCHANGED <<file, volume>>
    BY <1>8, HandlerFacts DEF SubmitUpload, AllRequests
  <2>2. QED
    BY <1>7, <2>1
<1>9. CASE \E u \in Samples : LoadSample(u)
  BY <1>7, <1>9 DEF LoadSample, AllRequests
<1>10. ASSUME NEW j \in Jobs, UploadLoop(j) PROVE LoneBudget'
  <2>1. /\ Loop(j) /\ UNCHANGED <<file, volume, origin, crowded>>
        /\ UNCHANGED <<dataset, outcome>> /\ Live' \subseteq Live
        /\ \A i \in Jobs : worker[i] = "returned" => worker'[i] = "returned"
    BY <1>10, LoopFacts DEF UploadLoop, uploadVars, requestVars
  <2>2. Staged' = Staged
    BY <2>1, LoopStaged
  <2>3. Used' = Used
    BY <2>1, <2>2, UsedKept
  <2>4. ASSUME NEW i \in Live' \ crowded' PROVE LoneOK(i)'
    <3>1. i \in Live \ crowded /\ i \in Jobs
      BY <2>1, <2>4 DEF Live
    <3>2. LoneOK(i)
      BY <1>0, <3>1
    <3>3. Live' = {i}
      BY <2>1, <2>4, <3>2 DEF LoneOK
    <3>4. QED
      BY <2>1, <2>2, <2>3, <3>1, <3>2, <3>3 DEF LoneOK
  <2>5. QED
    BY <2>4 DEF LoneBudget, LoneOK
<1>11. ASSUME NEW j \in Jobs, Dispatch(j), UNCHANGED uploadVars PROVE LoneBudget'
  <2>1. /\ j \in Live /\ Live' = Live /\ Staged' = Staged
        /\ UNCHANGED <<dataset, outcome, file, volume, origin, crowded>>
        /\ worker' = [worker EXCEPT ![j] = "working"]
    BY <1>11, DispatchFacts DEF uploadVars, requestVars
  <2>2. worker[j] # "returned"
    <3>1. pool # <<>> /\ j = Head(pool)
      BY <1>11 DEF Dispatch
    <3>2. Head(pool) = pool[1] /\ 1 \in 1..Len(pool)
      BY <3>1, TailFacts DEF TypeOK
    <3>3. QED
      BY <3>1, <3>2 DEF IInv, PoolInv
  <2>3. Used' = Used
    BY <2>1, UsedKept
  <2>4. \A i \in Jobs : worker[i] = "returned" => worker'[i] = "returned"
    BY <2>1, <2>2 DEF TypeOK
  <2>5. ASSUME NEW i \in Live' \ crowded' PROVE LoneOK(i)'
    <3>1. i \in Live \ crowded /\ i \in Jobs
      BY <2>1, <2>5 DEF Live
    <3>2. LoneOK(i)
      BY <1>0, <3>1
    <3>3. QED
      BY <2>1, <2>3, <2>4, <3>1, <3>2 DEF LoneOK
  <2>6. QED
    BY <2>5 DEF LoneBudget, LoneOK
<1>12. ASSUME NEW k \in Jobs, UploadWorker(k) PROVE LoneBudget'
  <2>1. /\ UNCHANGED <<dataset, file, volume, origin, crowded, kind>> /\ Live' = Live
        /\ worker[k] = "working" /\ k \in Live
    <3>1. /\ UNCHANGED <<dataset, file, volume, origin, crowded, kind>> /\ Live' = Live
          /\ worker[k] = "working"
      BY <1>12, WorkerFacts DEF requestVars
    <3>2. QED
      BY <3>1, StagedFacts DEF Working
  <2>2. ASSUME NEW i \in Live' \ crowded' PROVE LoneOK(i)'
    <3>1. i \in Live \ crowded /\ i \in Jobs
      BY <2>1, <2>2 DEF Live
    <3>2. LoneOK(i) /\ Live' = {i} /\ i = k
      BY <1>0, <2>1, <3>1 DEF LoneOK
    <3>3. CASE worker'[k] = "returned"
      BY <3>2, <3>3 DEF LoneOK
    <3>4. CASE worker'[k] # "returned"
      <4>1. PICK s \in Stages : EndStage(k, s)
        BY <1>12, <3>4, <2>1 DEF UploadWorker, Starve, EndOfWork, WorkFails, WorkReturns, EndWork, TypeOK
      <4>2. /\ s \in NextStages[kind[k]][at[k]] /\ at' = [at EXCEPT ![k] = s]
            /\ UNCHANGED <<worker, outcome>>
        BY <4>1 DEF EndStage, PassBoundary
      <4>3. kind[k] = "ingest"
        BY DEF OriginInv
      <4>4. CASE s \in {"sniffing", "loading"}
        <5>1. at[k] \notin Stages \ {"sniffing", "loading"}
          BY <4>2, <4>3, <4>4, UploadsAssumption
        <5>2. k \notin Staged
          BY <5>1 DEF Staged
        <5>3. Staged' = Staged
          BY <2>1, <4>2, <4>4, <5>1 DEF Staged, Working, TypeOK
        <5>4. Used' = Used
          BY <2>1, <4>2, <5>3, UsedKept
        <5>5. QED
          BY <2>1, <3>2, <4>2, <5>2, <5>3, <5>4 DEF LoneOK
      <4>5. CASE s \notin {"sniffing", "loading"}
        <5>1. k \in Staged'
          BY <2>1, <4>2, <4>3, <4>5 DEF Staged, Working, TypeOK
        <5>2. QED
          BY <3>2, <5>1 DEF LoneOK
      <4>6. QED
        BY <4>4, <4>5
    <3>5. QED
      BY <3>3, <3>4
  <2>3. QED
    BY <2>2 DEF LoneBudget, LoneOK
<1>13. CASE UNCHANGED allVars
  BY <1>3, <1>13 DEF allVars, uploadVars
<1>14. QED
  BY <1>4, <1>5, <1>8, <1>9, <1>10, <1>11, <1>12, <1>13 DEF UploadNext, Handler

\* An upload that finds no space did not come alone.
LEMMA LoneFitsStep ==
    ASSUME TypeOK, IInv, HandlerInv, UploadTypeOK, OriginInv, SpaceBasics, LoneBudget,
           LoneIngestFits, [UploadNext]_allVars
    PROVE  LoneIngestFits'
<1>1. crowded \subseteq crowded'
  <2>1. ASSUME NEW u, SubmitRequest(u) PROVE crowded \subseteq crowded'
    BY <2>1 DEF SubmitRequest
  <2>2. QED
    BY <2>1 DEF UploadNext, Handler, Admit, OpenFile, WriteFile, WriteFails, SubmitUpload, LoadSample,
           UploadLoop, UploadWorker, EndStage, Starve, EndOfWork, uploadVars, allVars
<1>2. \A j \in Jobs : state[j] # "absent" => origin'[j] = origin[j]
  <2>1. ASSUME NEW u \in AllRequests, SubmitRequest(u), NEW j \in Jobs, state[j] # "absent"
        PROVE  origin'[j] = origin[j]
    <3>1. CASE UNCHANGED origin
      BY <3>1
    <3>2. ASSUME NEW i \in Jobs, SubmitIngest(i, Key(u), IdOf[NameOf(u)]),
                 origin' = [origin EXCEPT ![i] = u]
          PROVE  origin'[j] = origin[j]
      <4>1. state[i] = "absent"
        BY <3>2, NewJob
      <4>2. QED
        BY <2>1, <3>2, <4>1 DEF UploadTypeOK
    <3>3. QED
      BY <2>1, <3>1, <3>2 DEF SubmitRequest
  <2>2. CASE Kept
    BY <2>2 DEF Kept
  <2>3. QED
    BY <2>1, <2>2, StepCases DEF Submits
<1>3. starved' = starved \/ \E i \in Jobs : Starve(i) /\ starved' = starved \cup {i}
  BY DEF UploadNext, Handler, Admit, OpenFile, WriteFile, WriteFails, SubmitUpload, LoadSample,
         UploadLoop, UploadWorker, EndStage, Starve, EndOfWork, uploadVars, allVars
<1>4. ASSUME Floor > 0, NEW i \in Jobs, Starve(i) PROVE i \in crowded \/ origin[i] \in Samples
  <2>1. worker[i] = "working" /\ at[i] = "loading" /\ Free = 0
    BY <1>4 DEF Starve, EndWork
  <2>2. i \in Live /\ i \notin Staged /\ worker[i] # "returned"
    BY <2>1, StagedFacts DEF Working, Staged
  <2>3. Used \in Nat /\ volume \in Nat /\ Floor \in Nat /\ volume <= Used
    BY <2>1, Sizes, FreeFacts DEF SpaceBasics
  <2>4. ~(Used + Floor <= volume)
    BY <1>4, <2>3
  <2>5. QED
    BY <2>2, <2>4 DEF LoneBudget
<1>5. ASSUME Floor > 0, NEW j \in starved' PROVE j \in crowded' \/ origin'[j] \in Samples
  <2>1. j \in Jobs /\ state[j] # "absent" /\ (j \in crowded \/ origin[j] \in Samples)
    <3>1. CASE j \in starved
      BY <1>5, <3>1 DEF LoneIngestFits, SpaceBasics, UploadTypeOK
    <3>2. ASSUME Starve(j), j \in Jobs
          PROVE  state[j] # "absent" /\ (j \in crowded \/ origin[j] \in Samples)
      BY <1>4, <1>5, <3>2 DEF Starve, EndWork, IInv, RecordInv
    <3>3. QED
      BY <1>3, <1>5, <3>1, <3>2
  <2>2. QED
    BY <1>1, <1>2, <2>1
<1>6. QED
  BY <1>5 DEF LoneIngestFits

-----------------------------------------------------------------------------
(* The theorems. *)

LEMMA UploadInitInv == UploadInit => UploadTypeOK /\ UploadsInvariant
<1> SUFFICES ASSUME UploadInit PROVE UploadTypeOK /\ UploadsInvariant
  OBVIOUS
<1>1. handler = NotHandling /\ ~HandlerAt("submit")
  BY DEF UploadInit, HandlerAt, NotHandling
<1>2. \A j \in Jobs : state[j] = "absent" /\ worker[j] = "none" /\ at[j] = "enter"
  BY DEF UploadInit, Init
<1>3. Live = {}
  BY <1>2 DEF Live
<1>4. Whole = {}
  BY DEF UploadInit, Whole
<1>5. UploadTypeOK
  <2>1. 0 \in 0..MaxRequests
    BY UploadsAssumption
  <2>2. NotHandling \in [upload : Uploads \cup {NoUpload}, step : 0..Len(HandlerSteps)]
    BY HandlerSteps3 DEF NotHandling
  <2>3. QED
    BY <2>1, <2>2 DEF UploadInit, UploadTypeOK
<1>6. HandlerInv /\ FilesInv
  BY <1>1, <1>3 DEF HandlerInv, FilesInv, UploadInit, Paths
<1>7. RewriteInv
  BY DEF RewriteInv, UploadInit
<1>8. OriginInv
  BY <1>2 DEF OriginInv, UploadInit, Init
<1>9. ReplyInv
  BY DEF ReplyInv, ReplyNamesContent, StaleOnlyAfterReplacement, UploadInit
<1>10. SpaceInv
  <2>1. IsFiniteSet(Whole)
    BY <1>4, FS_EmptySet
  <2>2. QED
    BY <1>1, <1>2, <1>3, <2>1 DEF SpaceInv, HandlerBudget, LoneBudget, LoneIngestFits, UploadInit
<1>11. QED
  BY <1>5, <1>6, <1>7, <1>8, <1>9, <1>10 DEF UploadsInvariant

LEMMA UploadInvStep ==
    TypeOK /\ IInv /\ NewestServed /\ UploadTypeOK /\ UploadsInvariant /\ [UploadNext]_allVars
        => UploadTypeOK' /\ UploadsInvariant'
<1> SUFFICES ASSUME TypeOK, IInv, NewestServed, UploadTypeOK, UploadsInvariant, [UploadNext]_allVars
             PROVE  UploadTypeOK' /\ UploadsInvariant'
  OBVIOUS
<1>1. HandlerInv /\ FilesInv /\ RewriteInv /\ OriginInv /\ ReplyInv /\ SpaceInv
  BY DEF UploadsInvariant
<1>2. SpaceBasics /\ HandlerBudget /\ LoneBudget /\ LoneIngestFits
  BY <1>1 DEF SpaceInv, SpaceBasics
<1>3. SpaceBasics' /\ HandlerBudget' /\ LoneBudget' /\ LoneIngestFits'
  BY <1>1, <1>2, BasicsStep, HandlerBudgetStep, LoneBudgetStep, LoneFitsStep
<1>4. SpaceInv'
  BY <1>3 DEF SpaceInv, SpaceBasics
<1>5. UploadTypeOK'
  BY <1>1, UploadTypeStep
<1>6. HandlerInv' /\ FilesInv' /\ RewriteInv' /\ OriginInv' /\ ReplyInv'
  BY <1>1, HandlerStep, FilesStep, RewriteStep, OriginStep, ReplyStep
<1>7. QED
  BY <1>4, <1>5, <1>6 DEF UploadsInvariant

\* What the handler, the files, the keys, the answers and the space have to do
\* with one another holds however uploads, samples, the loop and the workers
\* interleave.
THEOREM UploadsInductive == UploadSpec => [](UploadTypeOK /\ UploadsInvariant)
<1>1. UploadSpec => [](TypeOK /\ IInv /\ NewestServed)
  <2>1. TypeOK /\ ManagerInv => TypeOK /\ IInv /\ NewestServed
    BY DEF ManagerInv
  <2>2. QED
    BY <2>1, UploadsManaged, TypeCorrect, ManagerInvariant, PTL
<1>2. QED
  BY <1>1, UploadInitInv, UploadInvStep, PTL DEF UploadSpec

\* Every variable of the upload path keeps its type.
THEOREM UploadTypes == UploadSpec => []UploadTypeOK
  BY UploadsInductive, PTL

\* A dataset is built from less than its upload only when another upload of the
\* same bytes emptied the file while its ingest was on its way.
THEOREM CutOnlyBySameBytes == UploadSpec => []CutOnlyByRewrite
<1>1. UploadTypeOK /\ UploadsInvariant => CutOnlyByRewrite
  BY DEF UploadsInvariant, RewriteInv, UploadTypeOK, CutOnlyByRewrite
<1>2. QED
  BY <1>1, UploadsInductive, PTL

\* The answer to an upload names a job that ingests its content into its
\* dataset.
THEOREM AnswersNameContent == UploadSpec => []ReplyNamesContent
<1>1. UploadTypeOK /\ UploadsInvariant => ReplyNamesContent
  BY DEF UploadsInvariant, ReplyInv
<1>2. QED
  BY <1>1, UploadsInductive, PTL

\* An answer is stale only when a later ingest of its dataset has replaced the
\* one it names.
THEOREM StaleAnswers == UploadSpec => []StaleOnlyAfterReplacement
<1>1. UploadTypeOK /\ UploadsInvariant => StaleOnlyAfterReplacement
  BY DEF UploadsInvariant, ReplyInv
<1>2. QED
  BY <1>1, UploadsInductive, PTL

\* The guard on free space is enough for an upload that is alone.
THEOREM LoneUploadFits == UploadSpec => []LoneIngestFits
<1>1. UploadTypeOK /\ UploadsInvariant => LoneIngestFits
  BY DEF UploadsInvariant, SpaceInv
<1>2. QED
  BY <1>1, UploadsInductive, PTL

=============================================================================
