-------------------------- MODULE JobManagerProofs --------------------------
(***************************************************************************)
(* Proofs of JobManager's safety properties and that it implements         *)
(* DatasetJobs, for any number of jobs, keys, datasets and threads and any *)
(* pipelines.                                                              *)
(***************************************************************************)
EXTENDS JobManagerInv, SequenceTheorems, TLAPS

\* The first element and the rest of a non-empty sequence, index by index.
LEMMA TailFacts ==
    ASSUME NEW S, NEW s \in Seq(S), s # <<>>
    PROVE  /\ Tail(s) \in Seq(S) /\ Head(s) \in S
           /\ Len(s) \in Nat \ {0}
           /\ Head(s) = s[1]
           /\ Len(Tail(s)) = Len(s) - 1
           /\ \A n \in 1..Len(Tail(s)) : n + 1 \in 1..Len(s) /\ Tail(s)[n] = s[n + 1]
  OBVIOUS

\* Appending keeps every element where it is and adds one at the end.
LEMMA AppendFacts ==
    ASSUME NEW S, NEW s \in Seq(S), NEW e \in S
    PROVE  /\ Append(s, e) \in Seq(S)
           /\ Len(s) \in Nat
           /\ Len(Append(s, e)) = Len(s) + 1
           /\ Append(s, e)[Len(s) + 1] = e
           /\ \A n \in 1..Len(s) : Append(s, e)[n] = s[n]
           /\ Append(s, e) # <<>>
  OBVIOUS

\* Callbacks and publications are well-formed.
LEMMA CallbackTypes ==
    ASSUME NEW j \in Jobs
    PROVE  /\ \A op \in {"start", "acquired", "returned"} : Callback(op, j) \in Callbacks
           /\ \A s \in Stages : Publication(j, s) \in Callbacks
  BY DEF Callback, Publication, Callbacks, Positions

\* The lock of a job is one of the manager's locks.
LEMMA LockKeyType ==
    ASSUME TypeOK, NEW j \in Jobs
    PROVE  LockKey(j) \in LockKeys
  BY DEF TypeOK, LockKey, LockKeys, Ids

\* Initially everything is well-typed.
LEMMA InitType == Init => TypeOK
<1> SUFFICES ASSUME Init PROVE TypeOK
  OBVIOUS
<1>1. submitted \in JobOrNone /\ NoJob \in JobOrNone
  BY ConstantsAssumption DEF Init, JobOrNone, NoJob
<1>2. QED
  BY <1>1 DEF Init, TypeOK, Kinds, Ids, States, Codes, Outcomes, Positions, Steps, Idle

\* Creating a job keeps the job's fields well-typed.
LEMMA SubmissionType == TypeOK /\ Submission => TypeOK'
<1> SUFFICES ASSUME TypeOK, Submission PROVE TypeOK'
  OBVIOUS
<1> USE DEF TypeOK
<1>1. ASSUME NEW j \in Jobs, NEW r \in Requests, SubmitIngest(j, r[1], r[2])
      PROVE  TypeOK'
  <2>1. r[1] \in Keys /\ r[2] \in Ids
    BY ConstantsAssumption
  <2>2. ready' \in Seq(Callbacks)
    BY <1>1, CallbackTypes, AppendFacts DEF SubmitIngest, CreateJob
  <2>3. j \in JobOrNone
    BY DEF Jobs, JobOrNone
  <2>4. /\ idempotency' \in [Keys -> JobOrNone]
        /\ createdUnder' \in [Keys -> SUBSET Jobs]
    BY <1>1, <2>1, <2>3 DEF SubmitIngest
  <2>5. QED
    BY <1>1, <2>1, <2>2, <2>3, <2>4 DEF SubmitIngest, CreateJob, Kinds, States, lockVars, workVars
<1>2. ASSUME NEW j \in Jobs, NEW d \in Datasets, SubmitQuery(j, d)
      PROVE  TypeOK'
  <2>1. d \in Ids /\ j \in JobOrNone
    BY DEF Ids, Jobs, JobOrNone
  <2>2. ready' \in Seq(Callbacks)
    BY <1>2, CallbackTypes, AppendFacts DEF SubmitQuery, CreateJob
  <2>3. QED
    BY <1>2, <2>1, <2>2 DEF SubmitQuery, CreateJob, Kinds, States, lockVars, workVars
<1>3. QED
  BY <1>1, <1>2 DEF Submission

\* Every callback of the loop keeps the variables well-typed.
LEMMA LoopType == ASSUME TypeOK, ReadyInv, NEW j \in Jobs, Loop(j) PROVE TypeOK'
<1>1. j \in JobOrNone /\ NoJob \in JobOrNone /\ LockKey(j) \in LockKeys
  <2>1. LockKey(j) \in LockKeys
    BY LockKeyType
  <2>2. QED
    BY <2>1, ConstantsAssumption DEF Jobs, JobOrNone, NoJob
<1> USE DEF TypeOK
<1>2. ready # <<>> => Tail(ready) \in Seq(Callbacks) /\ Head(ready) \in Callbacks
  BY TailFacts
<1>3. Append(pool, j) \in Seq(Jobs) /\ Append(waiters[LockKey(j)], j) \in Seq(Jobs)
  BY <1>1, AppendFacts
<1>4. CASE StartIngest(j)
  <2>1. ready' \in Seq(Callbacks)
    BY <1>2, <1>4 DEF StartIngest, Runs
  <2>2. CASE LockFree(LockKey(j))
    <3>1. holder' \in [LockKeys -> JobOrNone] /\ waiters' \in [LockKeys -> Seq(Jobs)]
      BY <1>1, <1>4, <2>2 DEF StartIngest
    <3>2. /\ state' \in [Jobs -> States] /\ pool' \in Seq(Jobs)
          /\ worker' \in [Jobs -> {"none", "queued", "working", "returned"}]
          /\ at' = at /\ outcome' = outcome
      BY <1>3, <1>4, <2>2 DEF StartIngest, EnterRun, States
    <3>3. QED
      BY <1>4, <2>1, <3>1, <3>2 DEF StartIngest, requestVars
  <2>3. CASE ~LockFree(LockKey(j))
    BY ZenonT(60), <1>1, <1>3, <1>4, <2>1, <2>3
    DEF StartIngest, States, requestVars, workVars
  <2>4. QED
    BY <2>2, <2>3
<1>5. CASE StartQuery(j)
  BY <1>1, <1>2, <1>3, <1>5 DEF StartQuery, Runs, EnterRun, States, requestVars, lockVars
<1>6. CASE AcquireLock(j)
  <2>1. waiters' \in [LockKeys -> Seq(Jobs)]
    <3>1. Head(ready) = ready[1] /\ 1 \in 1..Len(ready)
      BY <1>6, TailFacts DEF AcquireLock, Runs
    <3>2. waiters[LockKey(j)] # <<>>
      BY <1>6, <3>1 DEF AcquireLock, Runs, ReadyInv, CallbackOK
    <3>3. QED
      BY <1>1, <1>6, <3>2, TailFacts DEF AcquireLock
  <2>2. QED
    BY <1>1, <1>2, <1>3, <1>6, <2>1 DEF AcquireLock, Runs, EnterRun, States, requestVars
<1>7. CASE Publish(j)
  <2>1. Append(events[j], Head(ready).stage) \in Seq(Stages)
    BY <1>2, <1>7, AppendFacts DEF Publish, Runs, Callbacks
  <2>2. QED
    BY <1>1, <1>2, <1>7, <2>1 DEF Publish, Runs, requestVars, lockVars, workVars
<1>8. CASE Resume(j)
  BY <1>1, <1>2, <1>8 DEF Resume, Runs, At, Steps, requestVars, recordVars, lockVars, workVars
<1>9. CASE SetResult(j)
  BY <1>1, <1>9 DEF SetResult, At, Steps, requestVars, lockVars, workVars
<1>10. CASE RegisterDataset(j)
  BY <1>1, <1>10 DEF RegisterDataset, At, Steps, requestVars, recordVars, lockVars, workVars
<1>11. CASE SetState(j)
  BY <1>1, <1>11 DEF SetState, EndState, States, Terminal, At, Steps, requestVars, lockVars, workVars
<1>12. CASE SetError(j)
  BY <1>1, <1>12 DEF SetError, At, Steps, Outcomes, Codes, requestVars, lockVars, workVars
<1>13. CASE Finish(j)
  <2>1. CASE ReleaseLock(j)
    <3>1. ready' \in Seq(Callbacks)
      <4>1. CASE waiters[LockKey(j)] = <<>>
        BY <2>1, <4>1 DEF ReleaseLock
      <4>2. CASE waiters[LockKey(j)] # <<>>
        BY <1>1, <2>1, <4>2, TailFacts, CallbackTypes, AppendFacts DEF ReleaseLock
      <4>3. QED
        BY <4>1, <4>2
    <3>2. QED
      BY <1>1, <1>13, <2>1, <3>1 DEF Finish, ReleaseLock, Idle, Steps, requestVars, workVars
  <2>2. CASE UNCHANGED <<lockVars, ready>>
    BY <1>1, <1>13, <2>2 DEF Finish, Idle, Steps, requestVars, lockVars, workVars
  <2>3. QED
    BY <1>13, <2>1, <2>2 DEF Finish
<1>14. QED
  BY <1>4, <1>5, <1>6, <1>7, <1>8, <1>9, <1>10, <1>11, <1>12, <1>13 DEF Loop

\* So do the executor's threads.
LEMMA ExecutorType ==
    ASSUME TypeOK, NEW j \in Jobs, Dispatch(j) \/ Worker(j) PROVE TypeOK'
<1> USE DEF TypeOK
<1>1. CASE Dispatch(j)
  BY <1>1, TailFacts DEF Dispatch, requestVars, recordVars, lockVars
<1>2. ASSUME NEW s \in Stages, PassBoundary(j, s) PROVE TypeOK'
  <2>1. ready' \in Seq(Callbacks)
    BY <1>2, CallbackTypes, AppendFacts DEF PassBoundary
  <2>2. s \in Positions
    BY DEF Positions
  <2>3. QED
    BY <1>2, <2>1, <2>2 DEF PassBoundary, requestVars, recordVars, lockVars
<1>3. ASSUME NEW o \in Outcomes, EndWork(j, o) PROVE TypeOK'
  <2>1. ready' \in Seq(Callbacks)
    BY <1>3, CallbackTypes, AppendFacts DEF EndWork
  <2>2. QED
    BY <1>3, <2>1 DEF EndWork, requestVars, recordVars, lockVars
<1>4. \A code \in ErrorCodes[kind[j]] : code \in Outcomes
  <2>1. kind[j] = "ingest" \/ kind[j] = "query"
    BY DEF Kinds
  <2>2. QED
    BY <2>1 DEF Outcomes, Codes
<1>5. CASE Worker(j)
  BY <1>2, <1>3, <1>4, <1>5
  DEF Worker, StopAtBoundary, WorkFails, WorkReturns, Outcomes, Codes
<1>6. QED
  BY <1>1, <1>5

\* Every step keeps the variables well-typed.
LEMMA NextType == TypeOK /\ ReadyInv /\ [Next]_vars => TypeOK'
<1> SUFFICES ASSUME TypeOK, ReadyInv, [Next]_vars PROVE TypeOK'
  OBVIOUS
<1>1. CASE Submission
  BY <1>1, SubmissionType
<1>2. ASSUME NEW j \in Jobs, Cancel(j) PROVE TypeOK'
  BY <1>2 DEF Cancel, TypeOK, requestVars, lockVars, workVars
<1>3. ASSUME NEW j \in Jobs, Loop(j) \/ Dispatch(j) \/ Worker(j) PROVE TypeOK'
  BY <1>3, LoopType, ExecutorType
<1>4. CASE UNCHANGED vars
  BY <1>4 DEF TypeOK, vars, requestVars, recordVars, lockVars, workVars
<1>5. QED
  BY <1>1, <1>2, <1>3, <1>4 DEF Next


-----------------------------------------------------------------------------
(* The loop's queue. *)

\* Running the next callback removes it from the front of the queue; when it
\* is not a publication, it was the last callback of its job.
LEMMA RunsFacts ==
    ASSUME TypeOK, ReadyOrder, ReadyInv, NEW j \in Jobs,
           NEW op \in {"start", "acquired", "publish", "returned"}, Runs(op, j)
    PROVE  /\ Len(ready') \in Nat
           /\ \A n \in 1..Len(ready') : ready'[n] \in Callbacks /\ CallbackOK(ready'[n])
           /\ \E c \in Callbacks : c.op = op /\ c.job = j /\ CallbackOK(c) /\ c = Head(ready)
           /\ op # "publish" => \A n \in 1..Len(ready') : ready'[n].job # j
           /\ ReadyOrder'
<1>1. /\ ready # <<>> /\ ready \in Seq(Callbacks) /\ ready' = Tail(ready)
      /\ Head(ready).op = op /\ Head(ready).job = j
  BY DEF Runs, TypeOK
<1>2. /\ Head(ready) = ready[1] /\ Head(ready) \in Callbacks
      /\ Len(ready) \in Nat \ {0} /\ Len(ready') = Len(ready) - 1
      /\ \A n \in 1..Len(ready') : n + 1 \in 1..Len(ready) /\ ready'[n] = ready[n + 1]
  BY <1>1, TailFacts
<1>3. \A n \in 1..Len(ready) : ready[n] \in Callbacks /\ CallbackOK(ready[n])
  BY <1>1 DEF ReadyInv
<1>4. op # "publish" => \A n \in 1..Len(ready') : ready'[n].job # j
  BY <1>1, <1>2 DEF ReadyOrder
<1>5. ReadyOrder'
  BY <1>2 DEF ReadyOrder
<1>6. QED
  BY <1>1, <1>2, <1>3, <1>4, <1>5

\* Scheduling a callback keeps the order, if its job has only publications
\* scheduled.
LEMMA ScheduleFacts ==
    ASSUME TypeOK, ReadyOrder, ReadyInv, NEW c \in Callbacks, ready' = Append(ready, c),
           \A n \in 1..Len(ready) : ready[n].job = c.job => ready[n].op = "publish"
    PROVE  /\ Len(ready') \in Nat
           /\ \A n \in 1..Len(ready') :
                 ready'[n] \in Callbacks /\ (ready'[n] = c \/ CallbackOK(ready'[n]))
           /\ \A n \in 1..Len(ready') :
                 ready'[n] = c \/ \E m \in 1..Len(ready) : ready'[n] = ready[m]
           /\ ReadyOrder'
<1>1. /\ ready \in Seq(Callbacks) /\ Len(ready) \in Nat /\ Len(ready') = Len(ready) + 1
      /\ ready'[Len(ready) + 1] = c
      /\ \A n \in 1..Len(ready) : ready'[n] = ready[n]
  BY AppendFacts DEF TypeOK
<1>2. \A n \in 1..Len(ready') : n \in 1..Len(ready) \/ n = Len(ready) + 1
  BY <1>1
<1>3. \A n \in 1..Len(ready') :
          ready'[n] = c \/ \E m \in 1..Len(ready) : ready'[n] = ready[m]
  BY <1>1, <1>2
<1>4. \A n \in 1..Len(ready) : ready[n] \in Callbacks /\ CallbackOK(ready[n])
  BY <1>1 DEF ReadyInv
<1>5. ReadyOrder'
  <2> SUFFICES ASSUME NEW m \in 1..Len(ready'), NEW n \in 1..Len(ready'),
                      m < n, ready'[m].job = ready'[n].job
               PROVE  ready'[m].op = "publish"
    BY DEF ReadyOrder
  <2>1. m \in 1..Len(ready)
    BY <1>1, <1>2
  <2>2. CASE n \in 1..Len(ready)
    BY <1>1, <2>1, <2>2 DEF ReadyOrder
  <2>3. CASE n = Len(ready) + 1
    BY <1>1, <2>1, <2>3
  <2>4. QED
    BY <1>2, <2>2, <2>3
<1>6. QED
  BY <1>1, <1>3, <1>4, <1>5

-----------------------------------------------------------------------------
(* Every action preserves the invariant. *)

\* A job is not counted among the jobs queued in the executor when it starts.
LEMMA PoolAppend ==
    ASSUME TypeOK, PoolInv, NEW j \in Jobs, worker[j] = "none",
           worker' = [worker EXCEPT ![j] = "queued"], pool' = Append(pool, j)
    PROVE  PoolInv'
<1>1. /\ Len(pool) \in Nat /\ Len(pool') = Len(pool) + 1 /\ pool'[Len(pool) + 1] = j
      /\ \A n \in 1..Len(pool) : pool'[n] = pool[n] /\ pool[n] \in Jobs
  BY AppendFacts DEF TypeOK
<1>2. \A n \in 1..Len(pool') : n \in 1..Len(pool) \/ n = Len(pool) + 1
  BY <1>1
<1>3. \A n \in 1..Len(pool) : worker[pool[n]] = "queued" /\ pool[n] # j
  BY DEF PoolInv
<1>4. \A n \in 1..Len(pool') : worker'[pool'[n]] = "queued"
  BY <1>1, <1>2, <1>3 DEF TypeOK
<1>5. \A m, n \in 1..Len(pool') : pool'[m] = pool'[n] => m = n
  <2>1. \A m, n \in 1..Len(pool) : pool'[m] = pool'[n] => m = n
    BY <1>1 DEF PoolInv
  <2>2. \A m \in 1..Len(pool) : pool'[m] # pool'[Len(pool) + 1]
    BY <1>1, <1>3
  <2>3. QED
    BY <1>2, <2>1, <2>2
<1>6. QED
  BY <1>4, <1>5 DEF PoolInv

\* What a callback says of its job stays true when its job's record, worker and
\* lock are left alone, and the loop does not turn to the job.
LEMMA CallbackKept ==
    ASSUME TypeOK, NEW c \in Callbacks, CallbackOK(c),
           state'[c.job] = state[c.job], worker'[c.job] = worker[c.job],
           kind'[c.job] = kind[c.job], dataset'[c.job] = dataset[c.job],
           c.op \in {"start", "acquired"} =>
               waiters'[LockKey(c.job)] = waiters[LockKey(c.job)],
           c.op = "acquired" => holder'[LockKey(c.job)] = holder[LockKey(c.job)],
           loop'.job # c.job
    PROVE  CallbackOK(c)'
<1>1. LockKey(c.job)' = LockKey(c.job)
  BY DEF LockKey
<1>2. NotWaiting(c.job) /\ c.op = "start" => NotWaiting(c.job)'
  BY <1>1 DEF NotWaiting
<1>3. QED
  BY <1>1, <1>2 DEF CallbackOK

LEMMA StartQueryInv == ASSUME TypeOK, IInv, NEW j \in Jobs, StartQuery(j) PROVE IInv'
<1> USE DEF IInv
<1>1. /\ Len(ready') \in Nat /\ ReadyOrder'
      /\ \A n \in 1..Len(ready') :
            ready'[n] \in Callbacks /\ CallbackOK(ready'[n]) /\ ready'[n].job # j
      /\ state[j] = "queued"
  BY RunsFacts DEF StartQuery, CallbackOK
<1>2. /\ state' = [state EXCEPT ![j] = "running"] /\ worker' = [worker EXCEPT ![j] = "queued"]
      /\ pool' = Append(pool, j) /\ loop = Idle
      /\ UNCHANGED <<submitted, kind, dataset, done, holder, waiters, loop, outcome>>
      /\ kind[j] = "query" /\ worker[j] = "none" /\ outcome[j] = "none"
  BY <1>1 DEF StartQuery, EnterRun, Runs, requestVars, lockVars, RecordInv, TypeOK
<1>3. ReadyInv'
  <2> SUFFICES ASSUME NEW n \in 1..Len(ready') PROVE CallbackOK(ready[n])'
    BY DEF ReadyInv
  <2>1. PICK c \in Callbacks : c = ready'[n] /\ CallbackOK(c) /\ c.job # j
    BY <1>1
  <2>2. c.job \in Jobs /\ loop'.job # c.job
    BY <1>2, <2>1 DEF Callbacks, Idle, CallbackOK
  <2>3. CallbackOK(c)'
    BY <1>2, <2>1, <2>2, CallbackKept DEF TypeOK
  <2>4. QED
    BY <2>1, <2>3 DEF CallbackOK, NotWaiting
<1>4. WaitersInv'
  BY <1>1, <1>2 DEF WaitersInv, LockKey, TypeOK
<1>5. PoolInv'
  BY <1>2, PoolAppend
<1>6. RecordInv'
  BY ZenonT(60), <1>1, <1>2 DEF RecordInv, TypeOK, Terminal, Idle, At
<1>7. LoopInv'
  BY <1>1, <1>2 DEF LoopInv, TypeOK, Idle
<1>8. OwnerInv'
  BY <1>1, <1>2 DEF OwnerInv, TypeOK, Idle, LockKey
<1>9. QED
  BY <1>1, <1>3, <1>4, <1>5, <1>6, <1>7, <1>8

LEMMA StartIngestInv == ASSUME TypeOK, IInv, NEW j \in Jobs, StartIngest(j) PROVE IInv'
<1> DEFINE l == LockKey(j)
<1> USE DEF IInv
<1>1. /\ Len(ready') \in Nat /\ ReadyOrder'
      /\ \A n \in 1..Len(ready') :
            ready'[n] \in Callbacks /\ CallbackOK(ready'[n]) /\ ready'[n].job # j
      /\ state[j] = "queued" /\ NotWaiting(j)
  BY SMTT(30), RunsFacts DEF StartIngest, CallbackOK
<1>2. l \in LockKeys /\ loop = Idle /\ worker[j] = "none" /\ outcome[j] = "none"
  BY <1>1, LockKeyType DEF StartIngest, Runs, RecordInv, TypeOK
<1>3. \A n \in 1..Len(ready') : \E c \in Callbacks :
          /\ c = ready'[n] /\ CallbackOK(c)
          /\ c.job \in Jobs /\ c.job # j /\ c.job # NoJob /\ LockKey(c.job) \in LockKeys
  BY <1>1, LockKeyType DEF Callbacks, Jobs, NoJob
<1>4. CASE LockFree(l)
  <2>1. /\ state' = [state EXCEPT ![j] = "running"]
        /\ worker' = [worker EXCEPT ![j] = "queued"] /\ pool' = Append(pool, j)
        /\ holder' = [holder EXCEPT ![l] = j]
        /\ UNCHANGED <<submitted, kind, dataset, done, waiters, loop, outcome>>
        /\ kind[j] = "ingest" /\ holder[l] = NoJob /\ waiters[l] = <<>>
    BY <1>4 DEF StartIngest, EnterRun, LockFree, requestVars
  <2>2. \A i \in Jobs : LockKey(i)' = LockKey(i)
    BY <2>1 DEF LockKey
  <2>3. ReadyInv'
    <3> SUFFICES ASSUME NEW n \in 1..Len(ready') PROVE CallbackOK(ready[n])'
      BY DEF ReadyInv
    <3>1. PICK c \in Callbacks : /\ c = ready'[n] /\ CallbackOK(c) /\ LockKey(c.job) \in LockKeys
                                 /\ c.job \in Jobs /\ c.job # j /\ c.job # NoJob
      BY <1>3
    <3>2. c.op = "acquired" => LockKey(c.job) # l
      BY <2>1, <3>1 DEF CallbackOK
    <3>3. CallbackOK(c)'
      BY <1>2, <2>1, <3>1, <3>2, CallbackKept DEF TypeOK, Idle
    <3>4. QED
      BY <3>1, <3>3 DEF CallbackOK, NotWaiting
  <2>4. WaitersInv'
    <3>1. \A k \in LockKeys : \A m \in 1..Len(waiters[k]) : waiters[k][m] \in Jobs /\ waiters[k][m] # j
      BY <1>1 DEF WaitersInv, NotWaiting, TypeOK
    <3>2. QED
      BY SMTT(30), <2>1, <2>2, <3>1 DEF WaitersInv, TypeOK
  <2>5. PoolInv'
    BY <1>2, <2>1, PoolAppend
  <2>6. RecordInv'
    BY ZenonT(60), <1>1, <1>2, <2>1 DEF RecordInv, TypeOK, Terminal, Idle, At
  <2>7. LoopInv'
    BY <1>2, <2>1 DEF LoopInv, TypeOK, Idle
  <2>8. OwnerInv'
    BY <1>2, <2>1, <2>2 DEF OwnerInv, TypeOK, Idle, Jobs, NoJob
  <2>9. QED
    BY <1>1, <2>3, <2>4, <2>5, <2>6, <2>7, <2>8
<1>5. CASE ~LockFree(l)
  <2>1. /\ waiters' = [waiters EXCEPT ![l] = Append(waiters[l], j)]
        /\ UNCHANGED <<submitted, kind, dataset, state, done, holder, pool, worker, loop, outcome>>
        /\ kind[j] = "ingest"
    BY <1>5 DEF StartIngest, requestVars, workVars
  <2>2. \A i \in Jobs : LockKey(i)' = LockKey(i)
    BY <2>1 DEF LockKey
  <2>3. /\ Len(waiters[l]) \in Nat /\ waiters'[l] # <<>>
        /\ Len(waiters'[l]) = Len(waiters[l]) + 1 /\ waiters'[l][Len(waiters[l]) + 1] = j
        /\ \A n \in 1..Len(waiters[l]) : waiters'[l][n] = waiters[l][n]
        /\ \A n \in 1..Len(waiters'[l]) : n \in 1..Len(waiters[l]) \/ n = Len(waiters[l]) + 1
        /\ \A k \in LockKeys : k # l => waiters'[k] = waiters[k]
    <3>1. /\ waiters[l] \in Seq(Jobs) /\ waiters'[l] = Append(waiters[l], j)
          /\ \A k \in LockKeys : k # l => waiters'[k] = waiters[k]
      BY <1>2, <2>1 DEF TypeOK
    <3>2. QED
      BY <3>1, AppendFacts
  <2>9. waiters[l] # <<>> => Head(waiters'[l]) = Head(waiters[l])
    <3>1. waiters[l] \in Seq(Jobs) /\ waiters'[l] = Append(waiters[l], j)
      BY <1>2, <2>1 DEF TypeOK
    <3>2. QED
      BY <3>1
  <2>4. ReadyInv'
    <3> SUFFICES ASSUME NEW n \in 1..Len(ready') PROVE CallbackOK(ready[n])'
      BY DEF ReadyInv
    <3>1. PICK c \in Callbacks : /\ c = ready'[n] /\ CallbackOK(c) /\ LockKey(c.job) \in LockKeys
                                 /\ c.job \in Jobs /\ c.job # j /\ c.job # NoJob
      BY <1>3
    <3>2. NotWaiting(c.job) => NotWaiting(c.job)'
      BY SMTT(30), <2>2, <2>3, <3>1 DEF NotWaiting
    <3>5. c.op = "acquired" => waiters'[LockKey(c.job)] # <<>> /\ Head(waiters'[LockKey(c.job)]) = c.job
      BY <2>3, <2>9, <3>1 DEF CallbackOK
    <3>3. CallbackOK(c)'
      BY <2>1, <2>2, <3>1, <3>2, <3>5 DEF CallbackOK
    <3>4. QED
      BY <3>1, <3>3 DEF CallbackOK, NotWaiting
  <2>5. WaitersInv'
    <3> SUFFICES ASSUME NEW k \in LockKeys, NEW m \in 1..Len(waiters'[k])
                 PROVE  \E i \in Jobs :
                            /\ i = waiters'[k][m] /\ LockKey(i) = k
                            /\ kind[i] = "ingest" /\ state[i] = "queued"
                            /\ \A n \in 1..Len(waiters'[k]) : i = waiters'[k][n] => m = n
      BY <2>1, <2>2 DEF WaitersInv
    <3>1. CASE k # l
      BY SMTT(30), <2>1, <2>3, <3>1 DEF WaitersInv, TypeOK
    <3>2. CASE k = l
      <4>1. \A n \in 1..Len(waiters[l]) : waiters[l][n] \in Jobs /\ waiters[l][n] # j
        BY <1>1, <1>2 DEF NotWaiting, TypeOK
      <4>2. CASE m \in 1..Len(waiters[l])
        <5>1. PICK i \in Jobs : /\ i = waiters[l][m] /\ i # j /\ i = waiters'[k][m] /\ LockKey(i) = k
                                /\ kind[i] = "ingest" /\ state[i] = "queued"
                                /\ \A n \in 1..Len(waiters[l]) : i = waiters[l][n] => m = n
          BY <1>2, <2>3, <3>2, <4>1, <4>2 DEF WaitersInv
        <5>2. \A n \in 1..Len(waiters'[k]) : i = waiters'[k][n] => m = n
          BY <2>3, <3>2, <5>1
        <5>3. QED
          BY <5>1, <5>2
      <4>3. CASE m = Len(waiters[l]) + 1
        <5>1. waiters'[k][m] = j /\ LockKey(j) = k
          BY <2>3, <3>2, <4>3
        <5>2. \A n \in 1..Len(waiters'[k]) : j = waiters'[k][n] => m = n
          BY <2>3, <3>2, <4>1, <4>3
        <5>3. QED
          BY <1>1, <2>1, <5>1, <5>2
      <4>4. QED
        BY <2>3, <3>2, <4>2, <4>3
    <3>3. QED
      BY <3>1, <3>2
  <2>6. PoolInv' /\ RecordInv' /\ LoopInv'
    BY <2>1 DEF PoolInv, RecordInv, LoopInv
  <2>7. OwnerInv'
    BY <2>1, <2>2 DEF OwnerInv
  <2>8. QED
    BY <1>1, <2>4, <2>5, <2>6, <2>7
<1>6. QED
  BY <1>4, <1>5

\* Steps that leave alone what the invariant speaks of preserve it.
LEMMA UnchangedInv ==
    ASSUME IInv, UNCHANGED <<submitted, kind, dataset, state, done, holder, waiters,
                             ready, loop, pool, worker, outcome>>
    PROVE  IInv'
<1>1. \A j \in Jobs : LockKey(j)' = LockKey(j)
  BY DEF LockKey
<1>2. ReadyInv' /\ ReadyOrder'
  BY DEF IInv, ReadyInv, ReadyOrder, CallbackOK, NotWaiting, LockKey
<1>3. WaitersInv' /\ PoolInv' /\ RecordInv' /\ LoopInv' /\ OwnerInv'
  BY DEF IInv, WaitersInv, PoolInv, RecordInv, LoopInv, OwnerInv, LockKey
<1>4. QED
  BY <1>2, <1>3 DEF IInv

\* The callbacks that stay scheduled speak of jobs the step does not touch.
LEMMA ReadyKept ==
    ASSUME TypeOK, UNCHANGED <<kind, dataset, waiters, holder>>,
           \A n \in 1..Len(ready') :
               /\ ready'[n] \in Callbacks /\ CallbackOK(ready'[n])
               /\ state'[ready'[n].job] = state[ready'[n].job]
               /\ worker'[ready'[n].job] = worker[ready'[n].job]
               /\ loop'.job # ready'[n].job
    PROVE  ReadyInv'
<1> SUFFICES ASSUME NEW n \in 1..Len(ready') PROVE CallbackOK(ready[n])'
  BY DEF ReadyInv
<1>1. PICK c \in Callbacks : /\ c = ready'[n] /\ CallbackOK(c) /\ loop'.job # c.job
                             /\ state'[c.job] = state[c.job] /\ worker'[c.job] = worker[c.job]
  OBVIOUS
<1>2. CallbackOK(c)'
  BY <1>1, CallbackKept
<1>3. QED
  BY <1>1, <1>2 DEF CallbackOK, NotWaiting

LEMMA PublishInv == ASSUME TypeOK, IInv, NEW j \in Jobs, Publish(j) PROVE IInv'
<1> USE DEF IInv
<1>1. /\ ReadyOrder' /\ loop = Idle
      /\ \A n \in 1..Len(ready') : ready'[n] \in Callbacks /\ CallbackOK(ready'[n])
  BY RunsFacts DEF Publish, Runs
<1>2. UNCHANGED <<submitted, kind, dataset, state, done, holder, waiters, loop, pool, worker, outcome>>
  BY DEF Publish, requestVars, lockVars, workVars
<1>3. ReadyInv'
  BY <1>1, <1>2, ReadyKept DEF CallbackOK
<1>4. WaitersInv' /\ PoolInv' /\ RecordInv' /\ LoopInv' /\ OwnerInv'
  BY <1>2 DEF WaitersInv, PoolInv, RecordInv, LoopInv, OwnerInv, LockKey
<1>5. QED
  BY <1>1, <1>3, <1>4

LEMMA ResumeInv == ASSUME TypeOK, IInv, NEW j \in Jobs, Resume(j) PROVE IInv'
<1> USE DEF IInv
<1>1. /\ ReadyOrder' /\ loop = Idle
      /\ \A n \in 1..Len(ready') :
            ready'[n] \in Callbacks /\ CallbackOK(ready'[n]) /\ ready'[n].job # j
      /\ state[j] = "running" /\ worker[j] = "returned"
  BY RunsFacts DEF Resume, Runs, CallbackOK
<1>2. /\ UNCHANGED <<submitted, kind, dataset, state, done, holder, waiters, pool, worker, outcome>>
      /\ loop' = At("result", j) \/ loop' = At("state", j)
  BY DEF Resume, requestVars, recordVars, lockVars, workVars
<1>3. ReadyInv'
  BY <1>1, <1>2, ReadyKept DEF At
<1>4. WaitersInv' /\ PoolInv'
  BY <1>2 DEF WaitersInv, PoolInv, LockKey
<1>5. RecordInv'
  <2>1. \A i \in Jobs : /\ loop # At("error", i) /\ loop # At("finish", i)
                        /\ loop' # At("error", i) /\ loop' # At("finish", i)
    BY <1>1, <1>2 DEF At, Idle
  <2>2. QED
    BY <1>2, <2>1 DEF RecordInv
<1>6. LoopInv'
  <2>1. ~done[j]
    BY <1>1 DEF RecordInv, Terminal
  <2>2. loop'.job = j /\ loop'.step # "idle" /\ j # NoJob
    BY <1>2 DEF At, Jobs, NoJob
  <2>3. QED
    BY <1>1, <1>2, <2>1, <2>2 DEF LoopInv
<1>7. OwnerInv'
  BY <1>1, <1>2 DEF OwnerInv, LockKey, At, Idle
<1>8. QED
  BY <1>1, <1>3, <1>4, <1>5, <1>6, <1>7

\* The assignments that end a job.
LEMMA EndStepInv ==
    ASSUME TypeOK, IInv, NEW j \in Jobs,
           SetResult(j) \/ RegisterDataset(j) \/ SetState(j) \/ SetError(j)
    PROVE  IInv'
<1> USE DEF IInv
<1>1. /\ UNCHANGED <<submitted, kind, dataset, done, holder, waiters, ready, pool, worker, outcome>>
      /\ loop.job = j /\ loop'.job = j
      /\ loop' \in {At("register", j), At("state", j), At("finish", j), At("error", j)}
  BY DEF SetResult, RegisterDataset, SetState, SetError, requestVars, recordVars, lockVars, workVars, At
<1>2. j # NoJob /\ worker[j] = "returned" /\ ~done[j]
  BY <1>1 DEF LoopInv, Jobs, NoJob
<1>3. \A i \in Jobs : i # j => state'[i] = state[i]
  BY DEF SetResult, RegisterDataset, SetState, SetError, recordVars, TypeOK
<1>4. /\ loop.step \in {"result", "register", "state"} => state[j] = "running"
      /\ loop'.step \in {"register", "state"} => state'[j] = "running"
      /\ loop'.step \in {"error", "finish"} => state'[j] \in Terminal
      /\ loop'.step # "idle" /\ loop.step # "idle"
  <2>1. loop.step \in {"result", "register", "state"} => state[j] = "running"
    <3>1. loop.step \in {"result", "register", "state"} =>
              loop # At("error", j) /\ loop # At("finish", j)
      BY DEF At
    <3>2. state[j] \in States /\ state[j] \notin {"absent", "queued"}
      BY <1>2 DEF RecordInv, TypeOK
    <3>3. loop.step \in {"result", "register", "state"} => state[j] \notin Terminal
      BY <1>2, <3>1 DEF RecordInv
    <3>4. QED
      BY <3>2, <3>3 DEF States
  <2>2. CASE SetResult(j) \/ RegisterDataset(j)
    BY <2>1, <2>2 DEF SetResult, RegisterDataset, recordVars, At
  <2>3. CASE SetState(j)
    <3>1. EndState(j) \in Terminal
      BY DEF EndState, Terminal
    <3>2. QED
      BY <2>1, <2>3, <3>1 DEF SetState, At, TypeOK
  <2>4. CASE SetError(j)
    BY <2>1, <2>4 DEF SetError, At, RecordInv, Terminal
  <2>5. QED
    BY <2>2, <2>3, <2>4
<1>5. ReadyInv'
  <2>1. \A n \in 1..Len(ready) : ready[n] \in Callbacks /\ CallbackOK(ready[n]) /\ ready[n].job # j
    <3>1. \A n \in 1..Len(ready) : ready[n] \in Callbacks
      BY DEF TypeOK
    <3>2. \A n \in 1..Len(ready) : CallbackOK(ready[n])
      BY DEF ReadyInv
    <3>3. \A c \in Callbacks : CallbackOK(c) => c.job # j
      BY <1>1 DEF CallbackOK
    <3>4. QED
      BY <3>1, <3>2, <3>3
  <2>2. \A n \in 1..Len(ready) : ready[n].job \in Jobs
    BY <2>1 DEF Callbacks
  <2>3. QED
    BY <1>1, <1>3, <2>1, <2>2, ReadyKept
<1>6. WaitersInv'
  <2>1. \A l \in LockKeys : \A m \in 1..Len(waiters[l]) : waiters[l][m] \in Jobs /\ waiters[l][m] # j
    BY <1>2 DEF WaitersInv, RecordInv, TypeOK
  <2>2. QED
    BY <1>1, <1>3, <2>1 DEF WaitersInv, LockKey
<1>7. RecordInv'
  <2> SUFFICES ASSUME NEW i \in Jobs
               PROVE  /\ state'[i] = "absent" <=> i > submitted
                      /\ worker[i] = "none" <=> state'[i] \in {"absent", "queued"}
                      /\ worker[i] \in {"queued", "working"} => state'[i] = "running"
                      /\ state'[i] \in Terminal <=>
                            done[i] \/ loop' = At("error", i) \/ loop' = At("finish", i)
                      /\ outcome[i] # "none" <=> worker[i] = "returned"
    BY <1>1 DEF RecordInv
  <2>1. CASE i = j
    <3>1. state[i] # "absent" /\ state'[i] # "absent" /\ state'[i] # "queued"
      BY <1>1, <1>2, <1>4, <2>1 DEF RecordInv, Terminal, At
    <3>2. QED
      BY <1>1, <1>2, <1>4, <2>1, <3>1 DEF RecordInv, At, Terminal
  <2>2. CASE i # j
    BY <1>1, <1>3, <2>2 DEF RecordInv, At
  <2>3. QED
    BY <2>1, <2>2
<1>8. LoopInv'
  BY <1>1, <1>2, <1>4 DEF LoopInv
<1>9. OwnerInv'
  BY <1>1, <1>3 DEF OwnerInv, LockKey
<1>10. QED
  BY <1>1, <1>5, <1>6, <1>7, <1>8, <1>9 DEF PoolInv, ReadyOrder

LEMMA DispatchInv == ASSUME TypeOK, IInv, NEW j \in Jobs, Dispatch(j) PROVE IInv'
<1> USE DEF IInv
<1>1. /\ UNCHANGED <<submitted, kind, dataset, state, done, holder, waiters, ready, loop, outcome>>
      /\ worker' = [worker EXCEPT ![j] = "working"] /\ pool' = Tail(pool)
      /\ pool \in Seq(Jobs) /\ pool # <<>> /\ j = Head(pool)
  BY DEF Dispatch, requestVars, recordVars, lockVars, TypeOK
<1>2. /\ j = pool[1] /\ Len(pool) \in Nat \ {0} /\ Len(pool') = Len(pool) - 1
      /\ \A n \in 1..Len(pool') : n + 1 \in 1..Len(pool) /\ pool'[n] = pool[n + 1]
  BY <1>1, TailFacts
<1>3. 1 \in 1..Len(pool) /\ worker[j] = "queued" /\ state[j] = "running"
  BY <1>2 DEF PoolInv, RecordInv
<1>4. \A i \in Jobs : i # j => worker'[i] = worker[i]
  BY <1>1 DEF TypeOK
<1>5. ReadyInv'
  <2>1. \A n \in 1..Len(ready) : ready[n] \in Callbacks /\ CallbackOK(ready[n])
    BY DEF ReadyInv, TypeOK
  <2>2. \A n \in 1..Len(ready) : ready[n].job \in Jobs /\ ready[n].job # j
    BY <1>3, <2>1 DEF CallbackOK, Callbacks
  <2>3. QED
    BY <1>1, <1>4, <2>1, <2>2, ReadyKept DEF CallbackOK
<1>6. PoolInv'
  <2> SUFFICES ASSUME NEW m \in 1..Len(pool')
               PROVE  /\ worker'[pool'[m]] = "queued"
                      /\ \A n \in 1..Len(pool') : pool'[m] = pool'[n] => m = n
    BY DEF PoolInv
  <2>1. pool[m + 1] \in Jobs /\ worker[pool[m + 1]] = "queued" /\ m + 1 \in 1..Len(pool) /\ m + 1 # 1
    BY <1>1, <1>2 DEF PoolInv
  <2>2. pool[m + 1] # j
    BY <1>2, <1>3, <2>1 DEF PoolInv
  <2>3. \A n \in 1..Len(pool') : pool'[m] = pool'[n] => m + 1 = n + 1
    BY <1>2, <2>1 DEF PoolInv
  <2>4. QED
    BY <1>2, <1>4, <2>1, <2>2, <2>3
<1>7. RecordInv'
  BY <1>1, <1>3, <1>4 DEF RecordInv, TypeOK
<1>8. LoopInv' /\ OwnerInv' /\ WaitersInv' /\ ReadyOrder'
  <2>1. loop.job # j
    BY <1>3 DEF LoopInv, Jobs, NoJob
  <2>2. LoopInv'
    BY <1>1, <1>4, <2>1 DEF LoopInv, TypeOK, JobOrNone, Jobs, NoJob
  <2>3. QED
    BY <1>1, <2>2 DEF OwnerInv, WaitersInv, ReadyOrder, LockKey
<1>9. QED
  BY <1>5, <1>6, <1>7, <1>8

\* A job whose work is running has only publications scheduled.
LEMMA WorkingFacts ==
    ASSUME TypeOK, IInv, NEW j \in Jobs, worker[j] = "working"
    PROVE  /\ state[j] = "running" /\ loop.job # j /\ outcome[j] = "none"
           /\ \A n \in 1..Len(ready) : ready[n].job = j => ready[n].op = "publish"
           /\ \A m \in 1..Len(pool) : pool[m] # j
<1> USE DEF IInv
<1>1. state[j] = "running" /\ loop.job # j /\ outcome[j] = "none"
  BY DEF RecordInv, LoopInv, Jobs, NoJob
<1>2. \A n \in 1..Len(ready) : ready[n] \in Callbacks /\ CallbackOK(ready[n])
  BY DEF ReadyInv, TypeOK
<1>3. \A n \in 1..Len(ready) : ready[n].job = j => ready[n].op = "publish"
  BY <1>1, <1>2 DEF CallbackOK, Callbacks
<1>4. QED
  BY <1>1, <1>3 DEF PoolInv

LEMMA PassBoundaryInv ==
    ASSUME TypeOK, IInv, NEW j \in Jobs, NEW s \in Stages, PassBoundary(j, s) PROVE IInv'
<1> DEFINE c == Publication(j, s)
<1>1. /\ UNCHANGED <<submitted, kind, dataset, state, done, holder, waiters, loop, pool, worker, outcome>>
      /\ ready' = Append(ready, c) /\ worker[j] = "working"
      /\ c \in Callbacks /\ c.op = "publish" /\ c.job = j
  BY CallbackTypes DEF PassBoundary, requestVars, recordVars, lockVars, Publication
<1>2. /\ state[j] = "running" /\ loop.job # j
      /\ \A n \in 1..Len(ready) : ready[n].job = j => ready[n].op = "publish"
  BY <1>1, WorkingFacts
<1> HIDE DEF c
<1> USE DEF IInv
<1>3. CallbackOK(c)
  BY <1>1, <1>2 DEF CallbackOK
<1>4. /\ ReadyOrder'
      /\ \A n \in 1..Len(ready') : ready'[n] \in Callbacks /\ CallbackOK(ready'[n])
  BY <1>1, <1>2, <1>3, ScheduleFacts
<1>5. ReadyInv'
  BY <1>1, <1>4, ReadyKept DEF CallbackOK
<1>6. WaitersInv' /\ PoolInv' /\ RecordInv' /\ LoopInv' /\ OwnerInv'
  BY <1>1 DEF WaitersInv, PoolInv, RecordInv, LoopInv, OwnerInv, LockKey
<1>7. QED
  BY <1>4, <1>5, <1>6

LEMMA EndWorkInv ==
    ASSUME TypeOK, IInv, NEW j \in Jobs, NEW o \in Outcomes \ {"none"}, EndWork(j, o) PROVE IInv'
<1> DEFINE c == Callback("returned", j)
<1>1. /\ UNCHANGED <<submitted, kind, dataset, state, done, holder, waiters, loop, pool>>
      /\ worker' = [worker EXCEPT ![j] = "returned"] /\ outcome' = [outcome EXCEPT ![j] = o]
      /\ ready' = Append(ready, c) /\ worker[j] = "working"
      /\ c \in Callbacks /\ c.op = "returned" /\ c.job = j
  BY CallbackTypes DEF EndWork, requestVars, recordVars, lockVars, Callback
<1>2. /\ state[j] = "running" /\ loop.job # j
      /\ \A n \in 1..Len(ready) : ready[n].job = j => ready[n].op = "publish"
      /\ \A m \in 1..Len(pool) : pool[m] # j
  BY <1>1, WorkingFacts
<1>3. \A i \in Jobs : i # j => worker'[i] = worker[i] /\ outcome'[i] = outcome[i]
  BY <1>1 DEF TypeOK
<1>4. worker'[j] = "returned" /\ outcome'[j] # "none"
  BY <1>1 DEF TypeOK
<1> HIDE DEF c
<1> USE DEF IInv
<1>5. /\ ReadyOrder' /\ Len(ready') \in Nat
      /\ \A n \in 1..Len(ready') :
            ready'[n] \in Callbacks /\ (ready'[n] = c \/ CallbackOK(ready'[n]))
      /\ \A n \in 1..Len(ready') :
            ready'[n] = c \/ \E m \in 1..Len(ready) : ready'[n] = ready[m]
  BY <1>1, <1>2, ScheduleFacts
<1>6. ReadyInv'
  <2> SUFFICES ASSUME NEW n \in 1..Len(ready') PROVE CallbackOK(ready[n])'
    BY DEF ReadyInv
  <2>1. PICK b \in Callbacks : /\ b = ready'[n] /\ (b = c \/ CallbackOK(b))
                               /\ b = c \/ (b.job = j => b.op = "publish")
    BY <1>2, <1>5
  <2>2. CASE b = c
    BY <1>1, <1>2, <1>4, <2>1, <2>2 DEF CallbackOK
  <2>3. CASE b # c /\ b.job = j
    BY <1>1, <1>2, <1>4, <2>1, <2>3 DEF CallbackOK
  <2>4. CASE b # c /\ b.job # j
    <3>1. b.job \in Jobs /\ loop'.job # b.job
      BY <1>1, <2>1, <2>4 DEF CallbackOK, Callbacks
    <3>2. CallbackOK(b)'
      BY <1>1, <1>3, <2>1, <2>4, <3>1, CallbackKept
    <3>3. QED
      BY <2>1, <3>2 DEF CallbackOK, NotWaiting
  <2>5. QED
    BY <2>2, <2>3, <2>4
<1>7. PoolInv'
  <2>1. \A m \in 1..Len(pool) : pool[m] \in Jobs
    BY DEF TypeOK
  <2>2. QED
    BY <1>1, <1>2, <1>3, <2>1 DEF PoolInv
<1>8. RecordInv'
  BY <1>1, <1>2, <1>3, <1>4 DEF RecordInv
<1>9. LoopInv'
  BY <1>1, <1>2, <1>3 DEF LoopInv, TypeOK, JobOrNone, Jobs, NoJob
<1>10. WaitersInv' /\ OwnerInv'
  BY <1>1 DEF WaitersInv, OwnerInv, LockKey
<1>11. QED
  BY <1>5, <1>6, <1>7, <1>8, <1>9, <1>10

LEMMA AcquireLockInv == ASSUME TypeOK, IInv, NEW j \in Jobs, AcquireLock(j) PROVE IInv'
<1> DEFINE l == LockKey(j)
<1> USE DEF IInv
<1>1. /\ ReadyOrder' /\ loop = Idle
      /\ \A n \in 1..Len(ready') :
            ready'[n] \in Callbacks /\ CallbackOK(ready'[n]) /\ ready'[n].job # j
      /\ state[j] = "queued" /\ kind[j] = "ingest" /\ holder[l] = NoJob
      /\ waiters[l] # <<>> /\ Head(waiters[l]) = j
  BY ZenonT(60), RunsFacts DEF AcquireLock, Runs, CallbackOK
<1>2. /\ waiters' = [waiters EXCEPT ![l] = Tail(waiters[l])] /\ holder' = [holder EXCEPT ![l] = j]
      /\ state' = [state EXCEPT ![j] = "running"] /\ worker' = [worker EXCEPT ![j] = "queued"]
      /\ pool' = Append(pool, j)
      /\ UNCHANGED <<submitted, kind, dataset, done, loop, outcome>>
  BY DEF AcquireLock, EnterRun, requestVars
<1>3. l \in LockKeys /\ worker[j] = "none" /\ outcome[j] = "none"
  BY <1>1, LockKeyType DEF RecordInv
<1>4. /\ \A i \in Jobs : LockKey(i)' = LockKey(i)
      /\ \A i \in Jobs : i # j => state'[i] = state[i] /\ worker'[i] = worker[i]
      /\ \A k \in LockKeys : k # l => waiters'[k] = waiters[k] /\ holder'[k] = holder[k]
      /\ holder'[l] = j /\ waiters'[l] = Tail(waiters[l]) /\ waiters[l] \in Seq(Jobs)
      /\ state'[j] = "running" /\ worker'[j] = "queued"
  BY <1>2, <1>3 DEF LockKey, TypeOK
<1>5. /\ j = waiters[l][1] /\ 1 \in 1..Len(waiters[l])
      /\ \A n \in 1..Len(waiters'[l]) :
            n + 1 \in 1..Len(waiters[l]) /\ waiters'[l][n] = waiters[l][n + 1]
  BY <1>1, <1>4, TailFacts
<1>6. \A n \in 1..Len(waiters'[l]) : waiters'[l][n] # j
  BY <1>3, <1>5 DEF WaitersInv
<1>7. ReadyInv'
  <2> SUFFICES ASSUME NEW n \in 1..Len(ready') PROVE CallbackOK(ready[n])'
    BY DEF ReadyInv
  <2>1. PICK c \in Callbacks : c = ready'[n] /\ CallbackOK(c) /\ c.job # j /\ c.job \in Jobs
    BY <1>1 DEF Callbacks
  <2>2. LockKey(c.job) \in LockKeys
    BY <2>1, LockKeyType
  <2>3. c.op = "acquired" => LockKey(c.job) # l
    BY <1>1, <2>1 DEF CallbackOK
  <2>4. NotWaiting(c.job) => NotWaiting(c.job)'
    <3>1. CASE LockKey(c.job) # l
      BY <1>4, <2>1, <2>2, <3>1 DEF NotWaiting
    <3>2. CASE LockKey(c.job) = l
      <4>1. NotWaiting(c.job) => \A m \in 1..Len(waiters'[l]) : waiters'[l][m] # c.job
        BY <1>5, <3>2 DEF NotWaiting
      <4>2. LockKey(c.job)' = l
        BY <1>4, <2>1, <3>2
      <4>3. QED
        BY <4>1, <4>2 DEF NotWaiting
    <3>3. QED
      BY <3>1, <3>2
  <2>5. CallbackOK(c)'
    BY <1>2, <1>4, <2>1, <2>2, <2>3, <2>4 DEF CallbackOK
  <2>6. QED
    BY <2>1, <2>5 DEF CallbackOK, NotWaiting
<1>8. WaitersInv'
  <2> SUFFICES ASSUME NEW k \in LockKeys, NEW m \in 1..Len(waiters'[k])
               PROVE  \E i \in Jobs :
                          /\ i # j /\ i = waiters'[k][m] /\ LockKey(i) = k
                          /\ kind[i] = "ingest" /\ state[i] = "queued"
                          /\ \A n \in 1..Len(waiters'[k]) : i = waiters'[k][n] => m = n
    <3>1. kind' = kind
      BY <1>2
    <3>2. QED
      BY <3>1, <1>4 DEF WaitersInv
  <2>1. CASE k # l
    <3>1. waiters'[k] = waiters[k] /\ waiters[k] \in Seq(Jobs)
      BY <1>4, <2>1 DEF TypeOK
    <3>2. waiters[k][m] \in Jobs /\ LockKey(waiters[k][m]) = k
      BY <3>1 DEF WaitersInv
    <3>3. QED
      BY <2>1, <3>1, <3>2 DEF WaitersInv
  <2>2. CASE k = l
    <3>1. PICK i \in Jobs : /\ i = waiters[l][m + 1] /\ i = waiters'[k][m] /\ i # j
                            /\ LockKey(i) = l /\ kind[i] = "ingest" /\ state[i] = "queued"
                            /\ \A n \in 1..Len(waiters[l]) : i = waiters[l][n] => m + 1 = n
      <4>1. /\ m + 1 \in 1..Len(waiters[l]) /\ waiters[l][m + 1] = waiters'[l][m]
            /\ waiters[l][m + 1] \in Jobs /\ waiters'[l][m] # j
        <5>1. m \in 1..Len(waiters'[l])
          BY <2>2
        <5>2. waiters[l] \in Seq(Jobs)
          BY <1>4
        <5>3. m + 1 \in 1..Len(waiters[l]) /\ waiters[l][m + 1] = waiters'[l][m]
          BY <1>5, <5>1
        <5>4. waiters[l][m + 1] \in Jobs
          BY <5>2, <5>3
        <5>5. QED
          BY <1>6, <5>1, <5>3, <5>4
      <4>2. /\ LockKey(waiters[l][m + 1]) = l /\ kind[waiters[l][m + 1]] = "ingest"
            /\ state[waiters[l][m + 1]] = "queued"
            /\ \A n \in 1..Len(waiters[l]) : waiters[l][m + 1] = waiters[l][n] => m + 1 = n
        BY <1>3, <4>1 DEF WaitersInv
      <4>3. QED
        BY <2>2, <4>1, <4>2
    <3>2. \A n \in 1..Len(waiters'[k]) : i = waiters'[k][n] => m + 1 = n + 1
      BY <1>5, <2>2, <3>1
    <3>3. QED
      BY <2>2, <3>1, <3>2
  <2>3. QED
    BY <2>1, <2>2
<1>9. PoolInv'
  BY <1>2, <1>3, PoolAppend
<1>10. RecordInv'
  BY ZenonT(60), <1>1, <1>2, <1>3 DEF RecordInv, TypeOK, Terminal, Idle, At
<1>11. LoopInv'
  BY <1>1, <1>2 DEF LoopInv, TypeOK, Idle
<1>12. OwnerInv'
  <2> SUFFICES ASSUME NEW i \in Jobs, kind[i] = "ingest", state'[i] = "running" \/ loop.job = i
               PROVE  holder'[LockKey(i)] = i
    BY <1>2, <1>4 DEF OwnerInv
  <2>1. CASE i = j
    BY <1>4, <2>1
  <2>2. CASE i # j
    <3>1. holder[LockKey(i)] = i /\ i # NoJob /\ LockKey(i) \in LockKeys
      BY <1>4, <2>2, LockKeyType DEF OwnerInv, Jobs, NoJob
    <3>2. QED
      BY <1>1, <1>4, <3>1
  <2>3. QED
    BY <2>1, <2>2
<1>13. QED
  BY <1>1, <1>7, <1>8, <1>9, <1>10, <1>11, <1>12

\* The end of an ingest's task wakes up the first job queued for its lock.
LEMMA FinishInv == ASSUME TypeOK, IInv, NEW j \in Jobs, Finish(j) PROVE IInv'
<1> DEFINE l == LockKey(j)
<1> USE DEF IInv
<1>1. /\ UNCHANGED <<submitted, kind, dataset, state, waiters, pool, worker, outcome>>
      /\ loop = At("finish", j) /\ loop' = Idle
      /\ done' = [done EXCEPT ![j] = TRUE]
  BY DEF Finish, ReleaseLock, requestVars, lockVars, workVars
<1>2. /\ state[j] \in Terminal /\ j # NoJob /\ l \in LockKeys
      /\ kind[j] = "ingest" => holder[l] = j
      /\ \A i \in Jobs : loop.job # i <=> i # j
  <2>1. loop.job = j
    BY <1>1 DEF At
  <2>2. state[j] \in Terminal
    BY <1>1 DEF RecordInv
  <2>3. QED
    BY <2>1, <2>2, LockKeyType DEF OwnerInv, Jobs, NoJob
<1>3. \A n \in 1..Len(ready) :
          ready[n] \in Callbacks /\ CallbackOK(ready[n]) /\ ready[n].job \in Jobs
  BY DEF ReadyInv, TypeOK, Callbacks
<1>4. \A i \in Jobs : LockKey(i)' = LockKey(i)
  BY <1>1 DEF LockKey
<1>5. /\ \A k \in LockKeys : k # l => holder'[k] = holder[k]
      /\ kind[j] = "ingest" => holder'[l] = NoJob
      /\ kind[j] # "ingest" => holder' = holder
  BY <1>2 DEF Finish, ReleaseLock, lockVars, TypeOK
<1>6. ASSUME NEW c \in Callbacks, CallbackOK(c), c.job \in Jobs PROVE CallbackOK(c)'
  <2>1. LockKey(c.job) \in LockKeys
    BY <1>6, LockKeyType
  <2>2. c.op = "acquired" => holder'[LockKey(c.job)] = holder[LockKey(c.job)]
    BY <1>2, <1>5, <1>6, <2>1 DEF CallbackOK
  <2>3. loop'.job # c.job
    BY <1>1, <1>6 DEF Idle, Jobs, NoJob
  <2>4. QED
    BY <1>1, <1>6, <2>2, <2>3, CallbackKept
<1>7. ReadyInv' /\ ReadyOrder'
  <2>1. CASE ready' = ready
    <3>1. ReadyInv'
      <4> SUFFICES ASSUME NEW n \in 1..Len(ready') PROVE CallbackOK(ready[n])'
        BY DEF ReadyInv
      <4>1. PICK c \in Callbacks : c = ready'[n] /\ CallbackOK(c) /\ c.job \in Jobs
        BY <1>3, <2>1
      <4>2. CallbackOK(c)'
        BY <1>6, <4>1
      <4>3. QED
        BY <4>1, <4>2 DEF CallbackOK, NotWaiting
    <3>2. QED
      BY <2>1, <3>1 DEF ReadyOrder
  <2>2. CASE kind[j] = "ingest" /\ waiters[l] # <<>>
              /\ ready' = Append(ready, Callback("acquired", Head(waiters[l])))
    <3>1. PICK w \in Jobs :
             /\ w = Head(waiters[l]) /\ kind[w] = "ingest" /\ state[w] = "queued"
             /\ LockKey(w) = l /\ 1 \in 1..Len(waiters[l]) /\ waiters[l][1] = w
      <4>1. /\ waiters[l] \in Seq(Jobs) /\ Head(waiters[l]) \in Jobs
            /\ Head(waiters[l]) = waiters[l][1] /\ 1 \in 1..Len(waiters[l])
        BY <1>2, <2>2, TailFacts DEF TypeOK
      <4>2. QED
        BY <1>2, <4>1 DEF WaitersInv
    <3>2. PICK a \in Callbacks : a.op = "acquired" /\ a.job = w /\ ready' = Append(ready, a)
      BY <2>2, <3>1, CallbackTypes DEF Callback
    <3>3. ~NotWaiting(w)
      BY <3>1 DEF NotWaiting
    <3>4. \A n \in 1..Len(ready) : ready[n].job # w
      <4> SUFFICES ASSUME NEW n \in 1..Len(ready), ready[n].job = w PROVE FALSE
        OBVIOUS
      <4>1. CallbackOK(ready[n]) /\ ready[n].op \in {"start", "acquired", "publish", "returned"}
        BY <1>3 DEF Callbacks
      <4>2. QED
        BY <1>2, <2>2, <3>1, <3>3, <4>1 DEF CallbackOK
    <3>5. /\ ReadyOrder' /\ Len(ready') \in Nat
          /\ \A n \in 1..Len(ready') : \/ ready'[n] = a
                                       \/ \E m \in 1..Len(ready) : ready'[n] = ready[m]
      BY <3>2, <3>4, ScheduleFacts
    <3>6. ReadyInv'
      <4> SUFFICES ASSUME NEW n \in 1..Len(ready') PROVE CallbackOK(ready[n])'
        BY DEF ReadyInv
      <4>1. PICK c \in Callbacks : c = ready'[n] /\ (c = a \/ (CallbackOK(c) /\ c.job \in Jobs))
        BY <1>3, <3>2, <3>5
      <4>2. CallbackOK(c)'
        <5>1. CASE c = a
          <6>1. loop'.job # w
            BY <1>1, <3>1 DEF Idle, Jobs, NoJob
          <6>2. LockKey(w)' = l
            BY <1>4, <3>1
          <6>3. waiters'[l] # <<>> /\ Head(waiters'[l]) = w
            BY <1>1, <2>2, <3>1
          <6>4. holder'[l] = NoJob
            BY <1>5, <2>2
          <6>5. kind'[w] = "ingest" /\ state'[w] = "queued" /\ a.op = "acquired" /\ a.job = w
            BY <1>1, <3>1, <3>2
          <6>6. CallbackOK(a)'
            BY <6>1, <6>2, <6>3, <6>4, <6>5 DEF CallbackOK
          <6>7. QED
            BY <5>1, <6>6 DEF CallbackOK, NotWaiting
        <5>2. CASE CallbackOK(c) /\ c.job \in Jobs
          BY <1>6, <5>2
        <5>3. QED
          BY <4>1, <5>1, <5>2
      <4>3. QED
        BY <4>1, <4>2 DEF CallbackOK, NotWaiting
    <3>7. QED
      BY <3>5, <3>6
  <2>3. QED
    BY <2>1, <2>2 DEF Finish, ReleaseLock
<1>8. WaitersInv' /\ PoolInv'
  BY <1>1 DEF WaitersInv, PoolInv, LockKey
<1>9. RecordInv'
  <2>1. \A i \in Jobs : loop' # At("error", i) /\ loop' # At("finish", i) /\ loop # At("error", i)
    BY <1>1 DEF At, Idle
  <2>2. \A i \in Jobs : i # j => loop # At("finish", i)
    BY <1>1 DEF At
  <2>3. \A i \in Jobs : done'[i] <=> done[i] \/ i = j
    BY <1>1 DEF TypeOK
  <2>4. QED
    BY <1>1, <1>2, <2>1, <2>2, <2>3 DEF RecordInv
<1>10. LoopInv'
  BY <1>1 DEF LoopInv, Idle
<1>11. OwnerInv'
  <2> SUFFICES ASSUME NEW i \in Jobs, kind[i] = "ingest", state[i] = "running" \/ loop'.job = i
               PROVE  holder'[LockKey(i)] = i
    BY <1>1, <1>4 DEF OwnerInv
  <2>1. state[i] = "running" /\ i # j /\ i # NoJob
    BY <1>1, <1>2 DEF Idle, Jobs, NoJob, Terminal
  <2>2. holder[LockKey(i)] = i /\ LockKey(i) \in LockKeys
    BY <2>1, LockKeyType DEF OwnerInv
  <2>3. QED
    BY <1>2, <1>5, <2>1, <2>2
<1>12. QED
  BY <1>7, <1>8, <1>9, <1>10, <1>11

\* No queue, lock or callback speaks of a job that does not exist yet.
LEMMA CreateJobInv ==
    ASSUME TypeOK, IInv, NEW j \in Jobs, j = submitted + 1, loop = Idle,
           NEW k \in Kinds, NEW d \in Ids, CreateJob(j, k, d),
           UNCHANGED <<done, holder, waiters, loop, pool, worker, outcome>>
    PROVE  IInv'
<1> DEFINE c == Callback("start", j)
<1> USE DEF IInv
<1>1. /\ submitted' = j /\ ready' = Append(ready, c) /\ submitted \in Nat
      /\ state' = [state EXCEPT ![j] = "queued"] /\ state'[j] = "queued"
      /\ \A i \in Jobs : i # j => /\ state'[i] = state[i] /\ kind'[i] = kind[i]
                                  /\ dataset'[i] = dataset[i]
      /\ c \in Callbacks /\ c.op = "start" /\ c.job = j
  <2>1. c \in Callbacks /\ c.op = "start" /\ c.job = j
    BY CallbackTypes DEF Callback
  <2>2. submitted \in Nat
    BY ConstantsAssumption DEF TypeOK, JobOrNone
  <2>3. /\ submitted' = j /\ ready' = Append(ready, c)
        /\ state' = [state EXCEPT ![j] = "queued"]
        /\ kind' = [kind EXCEPT ![j] = k] /\ dataset' = [dataset EXCEPT ![j] = d]
    BY DEF CreateJob
  <2>4. QED
    BY <2>1, <2>2, <2>3 DEF TypeOK
<1>2. state[j] = "absent" /\ worker[j] = "none" /\ ~done[j]
  BY <1>1 DEF RecordInv, Terminal
<1>3. \A i \in Jobs : i # j => LockKey(i)' = LockKey(i)
  BY <1>1 DEF LockKey
<1>4. \A n \in 1..Len(ready) :
          /\ ready[n] \in Callbacks /\ CallbackOK(ready[n])
          /\ ready[n].job \in Jobs /\ ready[n].job # j
  <2> SUFFICES ASSUME NEW n \in 1..Len(ready)
               PROVE  /\ ready[n] \in Callbacks /\ CallbackOK(ready[n])
                      /\ ready[n].job \in Jobs /\ ready[n].job # j
    OBVIOUS
  <2>1. ready[n] \in Callbacks /\ CallbackOK(ready[n])
    BY DEF ReadyInv, TypeOK
  <2>2. ready[n].op \in {"start", "acquired", "publish", "returned"} /\ ready[n].job \in Jobs
    BY <2>1 DEF Callbacks
  <2>3. QED
    BY <1>2, <2>1, <2>2 DEF CallbackOK
<1>5. \A l \in LockKeys : \A n \in 1..Len(waiters[l]) : waiters[l][n] \in Jobs /\ waiters[l][n] # j
  <2> SUFFICES ASSUME NEW l \in LockKeys, NEW n \in 1..Len(waiters[l])
               PROVE  waiters[l][n] \in Jobs /\ waiters[l][n] # j
    OBVIOUS
  <2>1. waiters[l] \in Seq(Jobs) /\ state[waiters[l][n]] = "queued"
    BY DEF TypeOK, WaitersInv
  <2>2. QED
    BY <1>2, <2>1
<1>6. loop'.job = NoJob /\ loop.job = NoJob /\ loop' = loop /\ \A i \in Jobs : i # NoJob
  BY DEF Idle, Jobs, NoJob
<1>7. LockKey(j)' \in LockKeys
  <2>1. dataset'[j] = d
    BY DEF CreateJob, TypeOK
  <2>2. QED
    BY <2>1 DEF LockKey, LockKeys
<1> HIDE DEF c
<1>8. /\ ReadyOrder' /\ Len(ready') \in Nat
      /\ \A n \in 1..Len(ready') : ready'[n] = c \/ \E m \in 1..Len(ready) : ready'[n] = ready[m]
  BY <1>1, <1>4, ScheduleFacts
<1>9. ReadyInv'
  <2> SUFFICES ASSUME NEW n \in 1..Len(ready') PROVE CallbackOK(ready[n])'
    BY DEF ReadyInv
  <2>1. PICK b \in Callbacks :
           b = ready'[n] /\ (b = c \/ (CallbackOK(b) /\ b.job \in Jobs /\ b.job # j))
    BY <1>1, <1>4, <1>8
  <2>2. CASE b = c
    <3>1. NotWaiting(j)'
      BY <1>5, <1>7 DEF NotWaiting
    <3>2. CallbackOK(c)'
      BY <1>1, <1>6, <3>1 DEF CallbackOK
    <3>3. QED
      BY <2>1, <2>2, <3>2 DEF CallbackOK, NotWaiting
  <2>3. CASE CallbackOK(b) /\ b.job \in Jobs /\ b.job # j
    <3>1. CallbackOK(b)'
      BY <1>1, <1>6, <2>3, CallbackKept
    <3>2. QED
      BY <2>1, <3>1 DEF CallbackOK, NotWaiting
  <2>4. QED
    BY <2>1, <2>2, <2>3
<1>10. WaitersInv'
  <2> SUFFICES ASSUME NEW l \in LockKeys, NEW m \in 1..Len(waiters[l])
               PROVE  \E i \in Jobs :
                          /\ i # j /\ i = waiters[l][m] /\ LockKey(i) = l
                          /\ kind[i] = "ingest" /\ state[i] = "queued"
                          /\ \A n \in 1..Len(waiters[l]) : i = waiters[l][n] => m = n
    BY <1>1, <1>3 DEF WaitersInv
  <2>1. QED
    BY <1>5 DEF WaitersInv
<1>11. PoolInv'
  BY DEF PoolInv
<1>12. RecordInv'
  <2> SUFFICES ASSUME NEW i \in Jobs
               PROVE  /\ state'[i] = "absent" <=> i > submitted'
                      /\ worker[i] = "none" <=> state'[i] \in {"absent", "queued"}
                      /\ worker[i] \in {"queued", "working"} => state'[i] = "running"
                      /\ state'[i] \in Terminal <=>
                            done[i] \/ loop = At("error", i) \/ loop = At("finish", i)
                      /\ outcome[i] # "none" <=> worker[i] = "returned"
    BY DEF RecordInv
  <2>1. loop # At("error", i) /\ loop # At("finish", i)
    BY DEF At, Idle
  <2>2. CASE i = j
    BY <1>1, <1>2, <2>1, <2>2 DEF RecordInv, Terminal, Jobs
  <2>3. CASE i # j
    <3>1. i \in Nat /\ (i > submitted <=> i > j)
      BY <1>1, <2>3 DEF Jobs
    <3>2. QED
      BY <1>1, <2>1, <2>3, <3>1 DEF RecordInv
  <2>4. QED
    BY <2>2, <2>3
<1>13. LoopInv'
  BY <1>6 DEF LoopInv
<1>14. OwnerInv'
  BY <1>1, <1>3, <1>6 DEF OwnerInv
<1>15. QED
  BY <1>8, <1>9, <1>10, <1>11, <1>12, <1>13, <1>14

\* The invariant holds initially and is preserved by every step.
LEMMA InitInv == Init => IInv
<1> SUFFICES ASSUME Init PROVE IInv
  OBVIOUS
<1>1. Len(ready) = 0 /\ Len(pool) = 0 /\ \A l \in LockKeys : Len(waiters[l]) = 0
  BY DEF Init
<1>2. ReadyInv /\ ReadyOrder /\ WaitersInv /\ PoolInv
  BY <1>1 DEF ReadyInv, ReadyOrder, WaitersInv, PoolInv
<1>3. RecordInv
  <2>1. \A j \in Jobs : loop # At("error", j) /\ loop # At("finish", j) /\ j > submitted
    BY DEF Init, Idle, At, Jobs
  <2>2. QED
    BY <2>1 DEF Init, RecordInv, Terminal
<1>4. LoopInv /\ OwnerInv
  BY DEF Init, LoopInv, OwnerInv, Idle, Jobs, NoJob
<1>5. QED
  BY <1>2, <1>3, <1>4 DEF IInv

LEMMA NextInv == TypeOK /\ IInv /\ [Next]_vars => IInv'
<1> SUFFICES ASSUME TypeOK, IInv, [Next]_vars PROVE IInv'
  OBVIOUS
<1>1. ASSUME NEW j \in Jobs, NEW r \in Requests, SubmitIngest(j, r[1], r[2]) PROVE IInv'
  <2>1. r[2] \in Ids
    BY ConstantsAssumption
  <2>2. QED
    BY <1>1, <2>1, CreateJobInv DEF SubmitIngest, Kinds, lockVars, workVars
<1>2. ASSUME NEW j \in Jobs, NEW d \in Datasets, SubmitQuery(j, d) PROVE IInv'
  BY <1>2, CreateJobInv DEF SubmitQuery, Kinds, Ids, lockVars, workVars
<1>3. ASSUME NEW j \in Jobs, Cancel(j) PROVE IInv'
  BY <1>3, UnchangedInv DEF Cancel, requestVars, lockVars, workVars
<1>4. ASSUME NEW j \in Jobs, Loop(j) PROVE IInv'
  BY <1>4, StartIngestInv, StartQueryInv, AcquireLockInv, PublishInv, ResumeInv,
     EndStepInv, FinishInv DEF Loop
<1>5. ASSUME NEW j \in Jobs, Dispatch(j) PROVE IInv'
  BY <1>5, DispatchInv
<1>6. ASSUME NEW j \in Jobs, Worker(j) PROVE IInv'
  <2>1. CASE \E s \in Stages : PassBoundary(j, s)
    BY <2>1, PassBoundaryInv
  <2>2. \A code \in ErrorCodes[kind[j]] : code \in Outcomes \ {"none"}
    <3>1. kind[j] \in Kinds
      BY DEF TypeOK
    <3>2. QED
      BY <3>1, ConstantsAssumption DEF Outcomes, Codes, Kinds
  <2>3. {"cancelled", "succeeded"} \subseteq Outcomes \ {"none"}
    BY DEF Outcomes, Codes
  <2>4. CASE StopAtBoundary(j) \/ WorkFails(j) \/ WorkReturns(j)
    BY <2>2, <2>3, <2>4, EndWorkInv DEF StopAtBoundary, WorkFails, WorkReturns
  <2>5. QED
    BY <1>6, <2>1, <2>4 DEF Worker
<1>7. CASE UNCHANGED vars
  BY <1>7, UnchangedInv DEF vars, requestVars, recordVars, lockVars, workVars
<1>8. QED
  BY <1>1, <1>2, <1>3, <1>4, <1>5, <1>6, <1>7 DEF Next, Submission

-----------------------------------------------------------------------------
(* Theorems. *)

\* In every reachable state the variables have their types and the queues, the
\* locks and the records fit one another (JobManager._run, _lock_for, cancel).
THEOREM Invariant == Spec => [](TypeOK /\ IInv)
<1>1. Init => TypeOK /\ IInv
  BY InitType, InitInv
<1>2. TypeOK /\ IInv /\ [Next]_vars => (TypeOK /\ IInv)'
  BY NextType, NextInv DEF IInv
<1>3. QED
  BY <1>1, <1>2, PTL DEF Spec

\* The job records, the locks and the queues always hold values of their types.
THEOREM TypeCorrect == Spec => []TypeOK
  BY Invariant, PTL

\* The per-dataset lock serialises ingests: whatever the number of jobs and
\* threads, no two jobs ever build the same dataset at the same time.
THEOREM Serialisation == Spec => []IngestsSerialised
<1>1. TypeOK /\ IInv => IngestsSerialised
  <2> SUFFICES ASSUME TypeOK, IInv, NEW i \in Jobs, NEW j \in Jobs,
                      i # j, InProgress(i), InProgress(j), dataset[i] # EmptyId
               PROVE  dataset[i] # dataset[j]
    BY DEF IngestsSerialised
  <2>1. holder[LockKey(i)] = i /\ holder[LockKey(j)] = j
    BY DEF IInv, OwnerInv, InProgress
  <2>2. QED
    BY <2>1 DEF LockKey
<1>2. QED
  BY <1>1, Invariant, PTL

\* What one step does to the state and the events of a job: a job in a terminal
\* state keeps both.
LEMMA StateSteps ==
    ASSUME TypeOK, IInv, [Next]_vars, NEW i \in Jobs
    PROVE  /\ state[i] \in Terminal => state'[i] = state[i] /\ events'[i] = events[i]
           /\ state[i] # "absent" => state'[i] # "absent" /\ kind'[i] = kind[i]
<1> USE DEF IInv
<1>1. ASSUME NEW j \in Jobs, NEW k \in Kinds, NEW d \in Ids, j = submitted + 1,
             CreateJob(j, k, d), events' = events
      PROVE  /\ state[i] \in Terminal => state'[i] = state[i] /\ events'[i] = events[i]
             /\ state[i] # "absent" => state'[i] # "absent" /\ kind'[i] = kind[i]
  <2>1. submitted \in Nat
    BY ConstantsAssumption DEF TypeOK, JobOrNone
  <2>2. state[j] = "absent"
    BY <1>1, <2>1 DEF RecordInv
  <2>3. QED
    BY <1>1, <2>2 DEF CreateJob, TypeOK, Terminal
<1>2. CASE Submission
  <2>1. \A r \in Requests : r[2] \in Ids
    BY ConstantsAssumption
  <2>2. QED
    BY <1>1, <1>2, <2>1 DEF Submission, SubmitIngest, SubmitQuery, Kinds, Ids
<1>3. ASSUME NEW j \in Jobs, StartIngest(j) \/ StartQuery(j) \/ AcquireLock(j)
      PROVE  /\ state[i] \in Terminal => state'[i] = state[i] /\ events'[i] = events[i]
             /\ state[i] # "absent" => state'[i] # "absent" /\ kind'[i] = kind[i]
  <2>1. state[j] = "queued"
    BY SMTT(30), <1>3, RunsFacts DEF StartIngest, StartQuery, AcquireLock, CallbackOK
  <2>2. events' = events /\ kind' = kind
        /\ (state' = state \/ state' = [state EXCEPT ![j] = "running"])
    BY <1>3 DEF StartIngest, StartQuery, AcquireLock, EnterRun, requestVars
  <2>3. QED
    BY <2>1, <2>2 DEF TypeOK, Terminal
<1>4. ASSUME NEW j \in Jobs, Publish(j)
      PROVE  /\ state[i] \in Terminal => state'[i] = state[i] /\ events'[i] = events[i]
             /\ state[i] # "absent" => state'[i] # "absent" /\ kind'[i] = kind[i]
  <2>1. state[j] = "running"
    BY <1>4, RunsFacts DEF Publish, CallbackOK
  <2>2. QED
    BY <1>4, <2>1 DEF Publish, requestVars, TypeOK, Terminal
<1>5. ASSUME NEW j \in Jobs, SetState(j)
      PROVE  /\ state[i] \in Terminal => state'[i] = state[i] /\ events'[i] = events[i]
             /\ state[i] # "absent" => state'[i] # "absent" /\ kind'[i] = kind[i]
  <2>1. loop.job = j /\ \A n \in Jobs : loop # At("error", n) /\ loop # At("finish", n)
    BY <1>5 DEF SetState, At
  <2>2. state[j] \notin Terminal
    BY <2>1 DEF LoopInv, RecordInv, Jobs, NoJob
  <2>3. EndState(j) # "absent"
    BY DEF EndState
  <2>4. QED
    BY <1>5, <2>2, <2>3 DEF SetState, requestVars, TypeOK
<1>6. ASSUME NEW j \in Jobs,
             \/ Cancel(j) \/ Resume(j) \/ SetResult(j) \/ RegisterDataset(j) \/ SetError(j)
             \/ Finish(j) \/ Dispatch(j) \/ Worker(j)
      PROVE  state' = state /\ events' = events /\ kind' = kind
  BY <1>6 DEF Cancel, Resume, SetResult, RegisterDataset, SetError, Finish, Dispatch, Worker,
     PassBoundary, StopAtBoundary, WorkFails, WorkReturns, EndWork, requestVars, recordVars
<1>7. CASE UNCHANGED vars
  BY <1>7 DEF vars, requestVars, recordVars
<1>8. QED
  BY <1>2, <1>3, <1>4, <1>5, <1>6, <1>7 DEF Next, Loop

\* A job that ended stays as it ended: no late event, no second outcome, not by
\* cancel nor by a callback that was still scheduled (JobManager._finish).
THEOREM Finality == Spec => TerminalIsFinal
<1>1. ASSUME TypeOK, IInv, [Next]_vars, NEW i \in Jobs, done[i]
      PROVE  error'[i] = error[i] /\ result'[i] = result[i] /\ done'[i]
  <2> USE DEF IInv
  <2>1. ASSUME NEW j \in Jobs, loop.job = j PROVE i # j
    BY <1>1, <2>1 DEF LoopInv, Jobs, NoJob
  <2>2. ASSUME NEW j \in Jobs, SetResult(j) \/ SetError(j)
        PROVE  error'[i] = error[i] /\ result'[i] = result[i] /\ done'[i]
    <3>1. i # j
      BY <2>1, <2>2 DEF SetResult, SetError, At
    <3>2. QED
      BY <1>1, <2>2, <3>1 DEF SetResult, SetError, TypeOK
  <2>3. ASSUME NEW j \in Jobs, Finish(j)
        PROVE  error'[i] = error[i] /\ result'[i] = result[i] /\ done'[i]
    BY <1>1, <2>3 DEF Finish, TypeOK
  <2>4. CASE Submission
    BY <1>1, <2>4 DEF Submission, SubmitIngest, SubmitQuery
  <2>5. ASSUME NEW j \in Jobs,
               \/ Cancel(j) \/ StartIngest(j) \/ StartQuery(j) \/ AcquireLock(j) \/ Publish(j)
               \/ Resume(j) \/ RegisterDataset(j) \/ SetState(j) \/ Dispatch(j) \/ Worker(j)
        PROVE  error' = error /\ result' = result /\ done' = done
    BY <2>5 DEF Cancel, StartIngest, StartQuery, AcquireLock, Publish, Resume, RegisterDataset,
       SetState, Dispatch, Worker, PassBoundary, StopAtBoundary, WorkFails, WorkReturns, EndWork,
       recordVars
  <2>6. CASE UNCHANGED vars
    BY <1>1, <2>6 DEF vars, recordVars
  <2>7. QED
    BY <1>1, <2>2, <2>3, <2>4, <2>5, <2>6 DEF Next, Loop
<1>2. TypeOK /\ IInv /\ [Next]_vars =>
          [\A j \in Jobs :
              /\ state[j] \in Terminal => state'[j] = state[j] /\ events'[j] = events[j]
              /\ done[j] => error'[j] = error[j] /\ result'[j] = result[j] /\ done'[j]]_vars
  BY <1>1, StateSteps
<1>3. QED
  BY <1>2, Invariant, PTL DEF Spec, TerminalIsFinal

\* Only the submission of an ingest touches the idempotency keys; it replaces a
\* key's job only when that job failed or was cancelled.
LEMMA KeyStep == TypeOK /\ IInv /\ KeyInv /\ [Next]_vars => KeyInv'
<1> SUFFICES ASSUME TypeOK, IInv, KeyInv, [Next]_vars,
                    NEW k \in Keys, NEW i \in createdUnder'[k]
             PROVE  /\ kind'[i] = "ingest" /\ state'[i] # "absent"
                    /\ i # idempotency'[k] => state'[i] \in {"failed", "cancelled"}
  BY DEF KeyInv
<1>1. ASSUME i \in Jobs, i \in createdUnder[k], i # idempotency[k] \/ idempotency'[k] = idempotency[k]
      PROVE  /\ kind'[i] = "ingest" /\ state'[i] # "absent"
             /\ i # idempotency'[k] => state'[i] \in {"failed", "cancelled"}
  <2>1. /\ kind[i] = "ingest" /\ state[i] # "absent"
        /\ i # idempotency[k] => state[i] \in {"failed", "cancelled"}
    BY <1>1 DEF KeyInv
  <2>2. /\ state[i] \in Terminal => state'[i] = state[i]
        /\ state'[i] # "absent" /\ kind'[i] = kind[i]
    BY <1>1, <2>1, StateSteps
  <2>3. QED
    BY <1>1, <2>1, <2>2 DEF Terminal
<1>2. CASE createdUnder' = createdUnder /\ idempotency' = idempotency
  BY <1>1, <1>2 DEF TypeOK
<1>3. ASSUME NEW j \in Jobs, NEW r \in Requests, SubmitIngest(j, r[1], r[2])
      PROVE  /\ kind'[i] = "ingest" /\ state'[i] # "absent"
             /\ i # idempotency'[k] => state'[i] \in {"failed", "cancelled"}
  <2>1. r[1] \in Keys
    BY ConstantsAssumption
  <2>2. CASE i = j /\ r[1] = k
    BY <1>3, <2>1, <2>2 DEF SubmitIngest, CreateJob, TypeOK
  <2>3. CASE ~(i = j /\ r[1] = k) /\ r[1] # k
    BY <1>1, <1>3, <2>1, <2>3 DEF SubmitIngest, TypeOK
  <2>4. CASE i # j /\ r[1] = k
    <3>1. i \in createdUnder[k] /\ i \in Jobs /\ idempotency'[k] = j
      BY <1>3, <2>1, <2>4 DEF SubmitIngest, TypeOK
    <3>2. kind[i] = "ingest" /\ state[i] \in {"failed", "cancelled"}
      <4>1. CASE i = idempotency[k]
        BY <1>3, <2>4, <3>1, <4>1 DEF SubmitIngest, Reusable, KeyInv, Jobs, NoJob
      <4>2. CASE i # idempotency[k]
        BY <3>1, <4>2 DEF KeyInv
      <4>3. QED
        BY <4>1, <4>2
    <3>3. /\ state'[i] = state[i] /\ kind'[i] = kind[i]
      BY <3>1, <3>2, StateSteps DEF Terminal
    <3>4. QED
      BY <3>2, <3>3
  <2>5. QED
    BY <2>2, <2>3, <2>4
<1>4. ASSUME NEW j \in Jobs,
             \/ \E d \in Datasets : SubmitQuery(j, d)
             \/ Cancel(j) \/ Loop(j) \/ Dispatch(j) \/ Worker(j)
      PROVE  createdUnder' = createdUnder /\ idempotency' = idempotency
  BY <1>4 DEF SubmitQuery, Cancel, Loop, StartIngest, StartQuery, AcquireLock, Publish, Resume,
     SetResult, RegisterDataset, SetState, SetError, Finish, Dispatch, Worker, PassBoundary,
     StopAtBoundary, WorkFails, WorkReturns, EndWork, requestVars
<1>5. CASE UNCHANGED vars
  BY <1>2, <1>5 DEF vars, requestVars
<1>6. QED
  BY <1>2, <1>3, <1>4, <1>5 DEF Next, Submission

\* A retried upload is never ingested twice: of the jobs created under one
\* idempotency key at most one is live or succeeded (submit_ingest).
THEOREM Idempotency == Spec => []OneJobPerKey
<1>1. Init => KeyInv
  BY DEF Init, KeyInv
<1>2. KeyInv => OneJobPerKey
  BY DEF KeyInv, OneJobPerKey
<1>3. QED
  BY <1>1, <1>2, KeyStep, Invariant, PTL DEF Spec

\* What the step of one job's task or worker leaves alone of the other jobs.
LEMMA OutcomeStep == TypeOK /\ IInv /\ OutcomeInv /\ [Next]_vars => OutcomeInv'
<1> DEFINE Ok(j) ==
        /\ outcome[j] = "cancelled" => cancel[j]
        /\ loop = At("result", j) \/ loop = At("register", j) => outcome[j] = "succeeded"
        /\ loop = At("error", j) => outcome[j] # "succeeded"
        /\ state[j] \in Terminal => state[j] = EndState(j)
        /\ result[j] <=>
              /\ outcome[j] = "succeeded"
              /\ done[j] \/ (loop.job = j /\ loop.step # "result")
        /\ error[j] = IF outcome[j] # "succeeded" /\ (done[j] \/ loop = At("finish", j))
                      THEN outcome[j] ELSE "none"
<1> SUFFICES ASSUME TypeOK, IInv, OutcomeInv, [Next]_vars, NEW i \in Jobs PROVE Ok(i)'
  BY DEF OutcomeInv
<1> USE DEF IInv
<1>1. Ok(i)
  BY DEF OutcomeInv
\* A step that moves neither the loop nor what the invariant says of job i.
<1>2. ASSUME /\ loop' = loop
             /\ outcome'[i] = outcome[i] /\ result'[i] = result[i] /\ error'[i] = error[i]
             /\ done'[i] = done[i] /\ (cancel[i] => cancel'[i])
             /\ (state'[i] = state[i] \/ state'[i] \notin Terminal)
      PROVE  Ok(i)'
  BY <1>1, <1>2 DEF EndState
<1>3. ASSUME NEW j \in Jobs,
             \/ \E r \in Requests : SubmitIngest(j, r[1], r[2])
             \/ \E d \in Datasets : SubmitQuery(j, d)
      PROVE  Ok(i)'
  <2>1. /\ loop' = loop /\ outcome' = outcome /\ result' = result /\ error' = error
        /\ done' = done /\ cancel' = cancel /\ state' = [state EXCEPT ![j] = "queued"]
    BY <1>3 DEF SubmitIngest, SubmitQuery, CreateJob, workVars
  <2>2. state'[i] = state[i] \/ state'[i] \notin Terminal
    BY <2>1 DEF TypeOK, Terminal
  <2>3. QED
    BY <1>2, <2>1, <2>2
<1>4. ASSUME NEW j \in Jobs, Cancel(j) PROVE Ok(i)'
  BY <1>2, <1>4 DEF Cancel, TypeOK, workVars
<1>5. ASSUME NEW j \in Jobs, StartIngest(j) \/ StartQuery(j) \/ AcquireLock(j) \/ Publish(j)
      PROVE  Ok(i)'
  <2>1. /\ loop' = loop /\ outcome' = outcome /\ result' = result /\ error' = error
        /\ done' = done /\ cancel' = cancel
        /\ state' = state \/ state' = [state EXCEPT ![j] = "running"]
    BY <1>5 DEF StartIngest, StartQuery, AcquireLock, Publish, EnterRun, workVars
  <2>2. state'[i] = state[i] \/ state'[i] \notin Terminal
    BY <2>1 DEF TypeOK, Terminal
  <2>3. QED
    BY <1>2, <2>1, <2>2
<1>6. ASSUME NEW j \in Jobs, Dispatch(j) \/ \E s \in Stages : PassBoundary(j, s) PROVE Ok(i)'
  BY <1>2, <1>6 DEF Dispatch, PassBoundary, recordVars
<1>7. ASSUME NEW j \in Jobs, NEW o \in Outcomes \ {"none"}, EndWork(j, o),
             o = "cancelled" => cancel[j]
      PROVE  Ok(i)'
  <2>1. /\ UNCHANGED <<state, error, result, done, cancel, loop>>
        /\ outcome' = [outcome EXCEPT ![j] = o]
    BY <1>7 DEF EndWork, recordVars
  <2>2. CASE i # j
    BY <1>2, <2>1, <2>2 DEF TypeOK
  <2>3. CASE i = j
    <3>1. state[i] = "running" /\ loop.job # i /\ outcome[i] = "none"
      BY <1>7, <2>3, WorkingFacts DEF EndWork
    <3>2. ~done[i] /\ outcome'[i] = o
      BY <2>1, <2>3, <3>1 DEF RecordInv, Terminal, TypeOK
    <3>3. \A step \in Steps : loop # At(step, i)
      BY <3>1 DEF At
    <3>4. QED
      BY <1>1, <1>7, <2>1, <2>3, <3>1, <3>2, <3>3 DEF EndState, Terminal, Steps
  <2>4. QED
    BY <2>2, <2>3
\* The loop's steps at the end of job j.
<1>8. ASSUME NEW j \in Jobs,
             Resume(j) \/ SetResult(j) \/ RegisterDataset(j) \/ SetState(j) \/ SetError(j) \/ Finish(j)
      PROVE  Ok(i)'
  <2>1. /\ outcome' = outcome /\ cancel' = cancel
        /\ loop.job \in {j, NoJob} /\ loop'.job \in {j, NoJob}
        /\ i # j => /\ state'[i] = state[i] /\ result'[i] = result[i]
                    /\ error'[i] = error[i] /\ done'[i] = done[i]
    BY <1>8 DEF Resume, Runs, SetResult, RegisterDataset, SetState, SetError, Finish, At, Idle,
       recordVars, workVars, TypeOK
  <2>2. CASE i # j
    <3>1. i # NoJob /\ loop.job # i /\ loop'.job # i
      BY <2>1, <2>2 DEF Jobs, NoJob
    <3>2. \A step \in Steps : loop # At(step, i) /\ loop' # At(step, i)
      BY <3>1 DEF At
    <3>3. QED
      BY <1>1, <2>1, <2>2, <3>1, <3>2 DEF EndState, Steps
  <2>3. CASE i = j /\ Resume(j)
    <3>1. state[j] = "running" /\ worker[j] = "returned" /\ loop = Idle
      BY SMTT(30), <2>3, RunsFacts DEF Resume, Runs, CallbackOK
    <3>2. /\ ~done[j] /\ i # NoJob
      BY <3>1 DEF RecordInv, Terminal, Jobs, NoJob
    <3>3. /\ UNCHANGED <<state, result, error, done>>
          /\ loop' = At(IF outcome[j] = "succeeded" THEN "result" ELSE "state", j)
      BY <2>3 DEF Resume, recordVars
    <3>4. QED
      BY <1>1, <2>1, <2>3, <3>1, <3>2, <3>3 DEF At, Idle, Terminal
  <2>4. CASE i = j /\ ~Resume(j)
    <3>1. loop.job = j /\ ~done[j]
      BY <1>8, <2>4 DEF SetResult, RegisterDataset, SetState, SetError, Finish, At, LoopInv, Jobs, NoJob
    <3>2. CASE SetResult(j)
      BY <1>1, <2>1, <2>4, <3>1, <3>2 DEF SetResult, At, TypeOK, EndState
    <3>3. CASE RegisterDataset(j)
      BY <1>1, <2>1, <2>4, <3>1, <3>3 DEF RegisterDataset, At, recordVars, EndState
    <3>4. CASE SetState(j)
      BY <1>1, <2>1, <2>4, <3>1, <3>4 DEF SetState, At, TypeOK, EndState
    <3>5. CASE SetError(j)
      BY <1>1, <2>1, <2>4, <3>1, <3>5 DEF SetError, At, TypeOK, EndState
    <3>6. CASE Finish(j)
      BY <1>1, <2>1, <2>4, <3>1, <3>6 DEF Finish, At, TypeOK, EndState, Idle, Jobs, NoJob
    <3>7. QED
      BY <1>8, <2>4, <3>2, <3>3, <3>4, <3>5, <3>6
  <2>5. QED
    BY <2>2, <2>3, <2>4
<1>9. ASSUME NEW j \in Jobs, StopAtBoundary(j) \/ WorkFails(j) \/ WorkReturns(j) PROVE Ok(i)'
  <2>1. \A code \in ErrorCodes[kind[j]] : code \in Outcomes \ {"none"} /\ code # "cancelled"
    <3>1. kind[j] \in Kinds
      BY DEF TypeOK
    <3>2. QED
      BY <3>1, ConstantsAssumption DEF Outcomes, Codes, Kinds
  <2>2. {"cancelled", "succeeded"} \subseteq Outcomes \ {"none"}
    BY DEF Outcomes, Codes
  <2>3. QED
    BY <1>7, <1>9, <2>1, <2>2 DEF StopAtBoundary, WorkFails, WorkReturns
<1>10. CASE UNCHANGED vars
  BY <1>2, <1>10 DEF vars, recordVars, workVars
<1>11. QED
  BY <1>3, <1>4, <1>5, <1>6, <1>8, <1>9, <1>10 DEF Next, Submission, Loop, Worker

\* A finished job carries a result exactly when it succeeded, a shaped error
\* exactly when it did not, and "cancelled" only when a client asked (_run).
THEOREM Shape == Spec => []OutcomeShaped
<1>1. Init => OutcomeInv
  BY DEF Init, OutcomeInv, Terminal, Idle, At, Jobs, NoJob
<1>2. TypeOK /\ IInv /\ OutcomeInv => OutcomeShaped
  <2> SUFFICES ASSUME TypeOK, IInv, OutcomeInv, NEW j \in Jobs, done[j]
               PROVE  /\ state[j] \in Terminal
                      /\ result[j] <=> state[j] = "succeeded"
                      /\ error[j] = "none" <=> state[j] = "succeeded"
                      /\ state[j] = "cancelled" => cancel[j]
    BY DEF OutcomeShaped
  <2>1. state[j] \in Terminal /\ outcome[j] # "none"
    BY DEF IInv, RecordInv, Terminal, TypeOK
  <2>2. /\ state[j] = "succeeded" <=> outcome[j] = "succeeded"
        /\ state[j] = "cancelled" => outcome[j] = "cancelled"
    BY <2>1 DEF OutcomeInv, EndState
  <2>3. result[j] <=> outcome[j] = "succeeded"
    BY DEF OutcomeInv
  <2>4. error[j] = "none" <=> outcome[j] = "succeeded"
    BY <2>1 DEF OutcomeInv
  <2>5. QED
    BY <2>1, <2>2, <2>3, <2>4 DEF OutcomeInv
<1>3. QED
  BY <1>1, <1>2, OutcomeStep, Invariant, PTL DEF Spec
-----------------------------------------------------------------------------
(* The history of a job. *)

\* A callback that publishes nothing of job j leaves its trail as it is.
LEMMA TrailAppend ==
    ASSUME NEW r \in Seq(Callbacks), NEW c \in Callbacks, NEW j, NEW e, NEW a,
           Trail(r, j, e, a), ~Publishes(c, j)
    PROVE  Trail(Append(r, c), j, e, a)
<1>1. /\ Len(r) \in Nat /\ Len(Append(r, c)) = Len(r) + 1 /\ Append(r, c)[Len(r) + 1] = c
      /\ \A n \in 1..Len(r) : Append(r, c)[n] = r[n]
  BY AppendFacts
<1>2. \A n \in 1..Len(Append(r, c)) : n \in 1..Len(r) \/ Append(r, c)[n] = c
  BY <1>1
<1>3. CASE \A n \in 1..Len(r) : ~Publishes(r[n], j)
  <2>1. \A n \in 1..Len(Append(r, c)) : ~Publishes(Append(r, c)[n], j)
    BY <1>1, <1>2, <1>3
  <2>2. IF e = <<>> THEN a = "enter" ELSE e[Len(e)] = a
    BY <1>3 DEF Trail
  <2>3. QED
    BY <2>1, <2>2 DEF Trail
<1>4. CASE ~(\A n \in 1..Len(r) : ~Publishes(r[n], j))
  <2>1. PICK n \in 1..Len(r) : /\ Publishes(r[n], j) /\ r[n].stage = a
                               /\ \A m \in 1..Len(r) : m > n => ~Publishes(r[m], j)
    BY <1>4 DEF Trail
  <2>2. n \in 1..Len(Append(r, c)) /\ Append(r, c)[n] = r[n]
    BY <1>1
  <2>3. \A m \in 1..Len(Append(r, c)) : m > n => ~Publishes(Append(r, c)[m], j)
    BY <1>1, <1>2, <2>1
  <2>4. QED
    BY <2>1, <2>2, <2>3 DEF Trail
<1>5. QED
  BY <1>3, <1>4

\* The boundary just passed is the last publication scheduled.
LEMMA TrailPublication ==
    ASSUME NEW r \in Seq(Callbacks), NEW j \in Jobs, NEW e, NEW s \in Stages
    PROVE  Trail(Append(r, Publication(j, s)), j, e, s)
<1> DEFINE c == Publication(j, s)
<1>1. c \in Callbacks /\ Publishes(c, j) /\ c.stage = s
  BY CallbackTypes DEF Publication, Publishes
<1>2. Len(r) \in Nat /\ Len(Append(r, c)) = Len(r) + 1 /\ Append(r, c)[Len(r) + 1] = c
  BY <1>1, AppendFacts
<1>3. Len(r) + 1 \in 1..Len(Append(r, c))
  BY <1>2
<1>4. \A m \in 1..Len(Append(r, c)) : ~(m > Len(r) + 1)
  BY <1>2
<1>5. QED
  BY <1>1, <1>2, <1>3, <1>4 DEF Trail

\* The next callback is taken: an event it publishes ends the history.
LEMMA TrailTaken ==
    ASSUME NEW r \in Seq(Callbacks), r # <<>>, NEW j, NEW e \in Seq(Stages), NEW f \in Seq(Stages),
           NEW a, Trail(r, j, e, a),
           IF Publishes(Head(r), j) THEN f = Append(e, Head(r).stage) /\ Head(r).stage \in Stages
                                    ELSE f = e
    PROVE  Trail(Tail(r), j, f, a)
<1>1. /\ Len(r) \in Nat \ {0} /\ Head(r) = r[1] /\ Len(Tail(r)) = Len(r) - 1
      /\ \A n \in 1..Len(Tail(r)) : n + 1 \in 1..Len(r) /\ Tail(r)[n] = r[n + 1]
  BY TailFacts
<1>2. 1 \in 1..Len(r)
  BY <1>1
<1>3. CASE \A n \in 1..Len(r) : ~Publishes(r[n], j)
  <2>1. f = e /\ \A n \in 1..Len(Tail(r)) : ~Publishes(Tail(r)[n], j)
    BY <1>1, <1>2, <1>3
  <2>2. IF e = <<>> THEN a = "enter" ELSE e[Len(e)] = a
    BY <1>3 DEF Trail
  <2>3. QED
    BY <2>1, <2>2 DEF Trail
<1>4. ASSUME NEW n \in 1..Len(r), Publishes(r[n], j), r[n].stage = a,
             \A m \in 1..Len(r) : m > n => ~Publishes(r[m], j)
      PROVE  Trail(Tail(r), j, f, a)
  <2>1. CASE n = 1
    <3>1. \A m \in 1..Len(Tail(r)) : ~Publishes(Tail(r)[m], j)
      <4>1. ASSUME NEW m \in 1..Len(Tail(r)) PROVE ~Publishes(Tail(r)[m], j)
        <5>1. m + 1 \in 1..Len(r) /\ m + 1 > n /\ Tail(r)[m] = r[m + 1]
          BY <1>1, <2>1
        <5>2. QED
          BY <1>4, <5>1
      <4>2. QED
        BY <4>1
    <3>2. f = Append(e, a) /\ a \in Stages
      BY <1>1, <1>4, <2>1
    <3>3. f # <<>> /\ f[Len(f)] = a
      BY <3>2, AppendFacts
    <3>4. QED
      BY <3>1, <3>3 DEF Trail
  <2>2. CASE n # 1
    <3>1. PICK k \in 1..Len(Tail(r)) : k + 1 = n
      <4>1. n - 1 \in 1..Len(Tail(r)) /\ (n - 1) + 1 = n
        BY <1>1, <2>2
      <4>2. QED
        BY <4>1
    <3>2. Publishes(Tail(r)[k], j) /\ Tail(r)[k].stage = a
      BY <1>1, <1>4, <3>1
    <3>3. ASSUME NEW m \in 1..Len(Tail(r)), m > k PROVE ~Publishes(Tail(r)[m], j)
      <4>1. m + 1 \in 1..Len(r) /\ m + 1 > n /\ Tail(r)[m] = r[m + 1]
        BY <1>1, <3>1, <3>3
      <4>2. QED
        BY <1>4, <4>1
    <3>4. QED
      BY <3>2, <3>3 DEF Trail
  <2>3. QED
    BY <2>1, <2>2
<1>5. QED
  BY <1>3, <1>4 DEF Trail
\* Publications reach the history in the order in which workers schedule them.
LEMMA HistoryStep == TypeOK /\ TypeOK' /\ IInv /\ HistoryInv /\ [Next]_vars => HistoryInv'
<1> SUFFICES ASSUME TypeOK, TypeOK', IInv, HistoryInv, [Next]_vars, NEW i \in Jobs
             PROVE  Trail(ready', i, events'[i], at'[i])
  BY DEF HistoryInv
<1>1. /\ Trail(ready, i, events[i], at[i]) /\ ready \in Seq(Callbacks)
      /\ events[i] \in Seq(Stages) /\ events'[i] \in Seq(Stages)
  BY DEF HistoryInv, TypeOK
\* What the queue of callbacks may become.
<1>2. ASSUME UNCHANGED <<ready, events, at>> PROVE Trail(ready', i, events'[i], at'[i])
  BY <1>1, <1>2
<1>3. ASSUME NEW op \in {"start", "acquired", "returned"}, NEW j \in Jobs,
             ready' = Append(ready, Callback(op, j)), UNCHANGED <<events, at>>
      PROVE  Trail(ready', i, events'[i], at'[i])
  <2>1. Callback(op, j) \in Callbacks /\ ~Publishes(Callback(op, j), i)
    BY CallbackTypes DEF Callback, Publishes
  <2>2. QED
    BY <1>1, <1>3, <2>1, TrailAppend
<1>4. ASSUME NEW op \in {"start", "acquired", "returned"}, NEW j \in Jobs, Runs(op, j),
             UNCHANGED <<events, at>>
      PROVE  Trail(ready', i, events'[i], at'[i])
  <2>1. ready # <<>> /\ ready' = Tail(ready) /\ ~Publishes(Head(ready), i)
    BY <1>4 DEF Runs, Publishes
  <2>2. QED
    BY <1>1, <1>4, <2>1, TrailTaken
\* The actions.
<1>5. CASE Submission
  <2>1. PICK j \in Jobs : ready' = Append(ready, Callback("start", j)) /\ UNCHANGED <<events, at>>
    BY <1>5 DEF Submission, SubmitIngest, SubmitQuery, CreateJob, workVars
  <2>2. QED
    BY <1>3, <2>1
<1>6. ASSUME NEW j \in Jobs,
             StartIngest(j) \/ StartQuery(j) \/ AcquireLock(j) \/ Resume(j)
      PROVE  Trail(ready', i, events'[i], at'[i])
  <2>1. /\ Runs("start", j) \/ Runs("acquired", j) \/ Runs("returned", j)
        /\ UNCHANGED <<events, at>>
    BY <1>6 DEF StartIngest, StartQuery, AcquireLock, Resume, EnterRun, workVars, recordVars
  <2>2. QED
    BY <1>4, <2>1
<1>7. ASSUME NEW j \in Jobs, Publish(j) PROVE Trail(ready', i, events'[i], at'[i])
  <2>1. /\ ready # <<>> /\ ready' = Tail(ready) /\ at' = at
        /\ Head(ready).op = "publish" /\ Head(ready).job = j
        /\ events' = [events EXCEPT ![j] = Append(@, Head(ready).stage)]
    BY <1>7 DEF Publish, Runs, workVars
  <2>2. Head(ready).stage \in Stages
    <3>1. Head(ready) \in Callbacks
      BY <1>1, <2>1, TailFacts
    <3>2. QED
      BY <2>1, <3>1 DEF Callbacks
  <2>3. events'[i] = IF i = j THEN Append(events[i], Head(ready).stage) ELSE events[i]
    BY <2>1 DEF TypeOK
  <2>4. QED
    BY <1>1, <2>1, <2>2, <2>3, TrailTaken DEF Publishes
<1>8. ASSUME NEW j \in Jobs,
             \/ Cancel(j) \/ SetResult(j) \/ RegisterDataset(j) \/ SetState(j) \/ SetError(j)
             \/ Dispatch(j)
      PROVE  UNCHANGED <<ready, events, at>>
  BY <1>8 DEF Cancel, SetResult, RegisterDataset, SetState, SetError, Dispatch, workVars, recordVars
<1>9. ASSUME NEW j \in Jobs, Finish(j) PROVE Trail(ready', i, events'[i], at'[i])
  <2>1. UNCHANGED <<events, at>>
    BY <1>9 DEF Finish, workVars
  <2>2. CASE UNCHANGED ready
    BY <1>2, <2>1, <2>2
  <2>3. CASE /\ waiters[LockKey(j)] # <<>>
             /\ ready' = Append(ready, Callback("acquired", Head(waiters[LockKey(j)])))
    <3>1. Head(waiters[LockKey(j)]) \in Jobs
      BY <2>3, LockKeyType, TailFacts DEF TypeOK
    <3>2. QED
      BY <1>3, <2>1, <2>3, <3>1
  <2>4. QED
    BY <1>9, <2>2, <2>3 DEF Finish, ReleaseLock
<1>10. ASSUME NEW j \in Jobs, NEW s \in Stages, PassBoundary(j, s)
       PROVE  Trail(ready', i, events'[i], at'[i])
  <2>1. /\ ready' = Append(ready, Publication(j, s)) /\ events' = events
        /\ at' = [at EXCEPT ![j] = s]
    BY <1>10 DEF PassBoundary, recordVars
  <2>2. CASE i = j
    <3>1. at'[i] = s
      BY <2>1, <2>2 DEF TypeOK
    <3>2. QED
      BY <1>1, <2>1, <2>2, <3>1, TrailPublication
  <2>3. CASE i # j
    <3>1. at'[i] = at[i] /\ ~Publishes(Publication(j, s), i)
      BY <2>1, <2>3 DEF TypeOK, Publishes, Publication
    <3>2. Publication(j, s) \in Callbacks
      BY CallbackTypes
    <3>3. QED
      BY <1>1, <2>1, <3>1, <3>2, TrailAppend
  <2>4. QED
    BY <2>2, <2>3
<1>11. ASSUME NEW j \in Jobs, StopAtBoundary(j) \/ WorkFails(j) \/ WorkReturns(j)
       PROVE  Trail(ready', i, events'[i], at'[i])
  <2>1. ready' = Append(ready, Callback("returned", j)) /\ UNCHANGED <<events, at>>
    BY <1>11 DEF StopAtBoundary, WorkFails, WorkReturns, EndWork, recordVars
  <2>2. QED
    BY <1>3, <2>1
<1>12. CASE UNCHANGED vars
  BY <1>2, <1>12 DEF vars, recordVars, workVars
<1>13. QED
  BY <1>2, <1>5, <1>6, <1>7, <1>8, <1>9, <1>10, <1>11, <1>12 DEF Next, Loop, Worker

\* When a job is done everything its worker announced is in its history, in
\* order, and no callback of the job is left on the loop (_publish, _finish).
THEOREM History == Spec => []HistoryComplete
<1>1. Init => HistoryInv
  <2> SUFFICES ASSUME Init, NEW j \in Jobs PROVE Trail(ready, j, events[j], at[j])
    BY DEF HistoryInv
  <2>1. ready = <<>> /\ events[j] = <<>> /\ at[j] = "enter"
    BY DEF Init
  <2>2. \A n \in 1..Len(ready) : ~Publishes(ready[n], j)
    BY <2>1
  <2>3. QED
    BY <2>1, <2>2 DEF Trail
<1>2. TypeOK /\ IInv /\ HistoryInv => HistoryComplete
  <2> SUFFICES ASSUME TypeOK, IInv, HistoryInv, NEW j \in Jobs, done[j]
               PROVE  /\ \A n \in DOMAIN ready : ready[n].job # j
                      /\ events[j] = <<>> => at[j] = "enter"
                      /\ events[j] # <<>> => events[j][Len(events[j])] = at[j]
    BY DEF HistoryComplete
  <2>1. state[j] \in Terminal
    BY DEF IInv, RecordInv
  <2>2. ASSUME NEW n \in 1..Len(ready) PROVE ready[n].job # j
    <3>1. ready[n] \in Callbacks /\ CallbackOK(ready[n])
      BY DEF TypeOK, IInv, ReadyInv
    <3>2. QED
      BY <2>1, <3>1 DEF CallbackOK, Callbacks, Terminal
  <2>3. DOMAIN ready = 1..Len(ready)
    BY DEF TypeOK
  <2>4. Trail(ready, j, events[j], at[j])
    BY DEF HistoryInv
  <2>5. \A n \in 1..Len(ready) : ~Publishes(ready[n], j)
    BY <2>2 DEF Publishes
  <2>6. QED
    BY <2>2, <2>3, <2>4, <2>5 DEF Trail
<1>3. QED
  BY <1>1, <1>2, HistoryStep, Invariant, PTL DEF Spec
-----------------------------------------------------------------------------
(* Cancellation. *)

\* What the steps of other jobs, and the loop, leave alone of job i's work.
LEMMA WorkKept ==
    ASSUME TypeOK, IInv, NEW i \in Jobs, NEW j \in Jobs, state[i] # "absent",
           \/ \E r \in Requests : SubmitIngest(j, r[1], r[2])
           \/ \E d \in Datasets : SubmitQuery(j, d)
           \/ Cancel(j) \/ Loop(j) \/ Dispatch(j)
    PROVE  /\ at'[i] = at[i] /\ outcome'[i] = outcome[i] /\ (cancel[i] => cancel'[i])
           /\ worker'[i] = "returned" <=> worker[i] = "returned"
<1>1. at' = at /\ outcome' = outcome /\ (cancel' = cancel \/ cancel' = [cancel EXCEPT ![j] = TRUE])
  BY DEF SubmitIngest, SubmitQuery, CreateJob, Cancel, Loop, StartIngest, StartQuery, AcquireLock,
     Publish, Resume, SetResult, RegisterDataset, SetState, SetError, Finish, Dispatch, EnterRun,
     recordVars, workVars
<1>2. CASE StartIngest(j) \/ StartQuery(j) \/ AcquireLock(j)
  <2>1. state[j] = "queued"
    BY SMTT(30), <1>2, RunsFacts DEF StartIngest, StartQuery, AcquireLock, CallbackOK, IInv
  <2>2. worker[j] = "none"
    BY <2>1 DEF IInv, RecordInv
  <2>3. worker' = worker \/ worker' = [worker EXCEPT ![j] = "queued"]
    BY <1>2 DEF StartIngest, StartQuery, AcquireLock, EnterRun, workVars
  <2>4. QED
    BY <1>1, <2>2, <2>3 DEF TypeOK
<1>3. CASE Dispatch(j)
  <2>1. worker[j] = "queued" /\ worker' = [worker EXCEPT ![j] = "working"]
    BY <1>3, TailFacts DEF Dispatch, IInv, PoolInv, TypeOK
  <2>2. QED
    BY <1>1, <2>1 DEF TypeOK
<1>4. CASE \/ \E r \in Requests : SubmitIngest(j, r[1], r[2])
           \/ \E d \in Datasets : SubmitQuery(j, d)
           \/ Cancel(j) \/ Publish(j) \/ Resume(j) \/ SetResult(j) \/ RegisterDataset(j)
           \/ SetState(j) \/ SetError(j) \/ Finish(j)
  <2>1. worker' = worker
    BY <1>4 DEF SubmitIngest, SubmitQuery, Cancel, Publish, Resume, SetResult, RegisterDataset,
       SetState, SetError, Finish, workVars
  <2>2. QED
    BY <1>1, <2>1 DEF TypeOK
<1>5. QED
  BY <1>2, <1>3, <1>4 DEF Loop

\* A job that can no longer succeed never can again.
LEMMA DoomedStep ==
    ASSUME TypeOK, IInv, [Next]_vars, NEW i \in Jobs, Doomed(i)
    PROVE  Doomed(i)'
<1>1. state'[i] # "absent" /\ kind'[i] = kind[i]
  BY StateSteps DEF Doomed
<1>2. ASSUME NEW j \in Jobs,
             \/ \E r \in Requests : SubmitIngest(j, r[1], r[2])
             \/ \E d \in Datasets : SubmitQuery(j, d)
             \/ Cancel(j) \/ Loop(j) \/ Dispatch(j)
      PROVE  Doomed(i)'
  <2>1. /\ at'[i] = at[i] /\ outcome'[i] = outcome[i] /\ cancel'[i]
        /\ worker'[i] = "returned" <=> worker[i] = "returned"
    BY <1>2, WorkKept DEF Doomed
  <2>2. QED
    BY <1>1, <2>1 DEF Doomed
<1>3. ASSUME NEW j \in Jobs, NEW s \in Stages, PassBoundary(j, s) PROVE Doomed(i)'
  <2>1. i # j
    BY <1>3 DEF PassBoundary, Doomed
  <2>2. UNCHANGED <<cancel, worker, outcome>> /\ at' = [at EXCEPT ![j] = s]
    BY <1>3 DEF PassBoundary, recordVars
  <2>3. QED
    BY <1>1, <2>1, <2>2 DEF Doomed, TypeOK
<1>4. ASSUME NEW j \in Jobs, StopAtBoundary(j) \/ WorkFails(j) \/ WorkReturns(j)
      PROVE  Doomed(i)'
  <2>1. PICK o \in Outcomes : EndWork(j, o) /\ (o = "succeeded" => at[j] \in ReturnsFrom[kind[j]])
    <3>1. kind[j] \in Kinds
      BY DEF TypeOK
    <3>2. \A code \in ErrorCodes[kind[j]] : code \in Outcomes /\ code # "succeeded"
      BY <3>1, ConstantsAssumption DEF Outcomes, Codes, Kinds
    <3>3. {"cancelled", "succeeded"} \subseteq Outcomes
      BY DEF Outcomes, Codes
    <3>4. QED
      BY <1>4, <3>2, <3>3 DEF StopAtBoundary, WorkFails, WorkReturns
  <2>2. /\ UNCHANGED <<cancel, at>> /\ worker[j] = "working"
        /\ worker' = [worker EXCEPT ![j] = "returned"] /\ outcome' = [outcome EXCEPT ![j] = o]
    BY <2>1 DEF EndWork, recordVars
  <2>3. CASE i # j
    BY <1>1, <2>2, <2>3 DEF Doomed, TypeOK
  <2>4. CASE i = j
    <3>1. o # "succeeded"
      BY <2>1, <2>2, <2>4 DEF Doomed
    <3>2. QED
      BY <1>1, <2>2, <2>4, <3>1 DEF Doomed, TypeOK
  <2>5. QED
    BY <2>3, <2>4
<1>5. CASE UNCHANGED vars
  BY <1>1, <1>5 DEF vars, recordVars, workVars, Doomed
<1>6. QED
  BY <1>2, <1>3, <1>4, <1>5 DEF Next, Submission, Worker

\* A job is asked to stop only once it exists, and exists for ever after.
LEMMA CancelStep == TypeOK /\ IInv /\ CancelInv /\ [Next]_vars => CancelInv'
<1> SUFFICES ASSUME TypeOK, IInv, CancelInv, [Next]_vars, NEW i \in Jobs, cancel'[i]
             PROVE  state'[i] # "absent"
  BY DEF CancelInv
<1>1. cancel[i] \/ state[i] # "absent"
  <2>1. ASSUME NEW j \in Jobs, Cancel(j) PROVE cancel[i] \/ state[i] # "absent"
    BY <2>1 DEF Cancel, TypeOK
  <2>2. CASE Submission
    BY <2>2 DEF Submission, SubmitIngest, SubmitQuery
  <2>3. ASSUME NEW j \in Jobs, Loop(j) \/ Dispatch(j) \/ Worker(j) PROVE cancel' = cancel
    BY <2>3 DEF Loop, StartIngest, StartQuery, AcquireLock, Publish, Resume, SetResult,
       RegisterDataset, SetState, SetError, Finish, Dispatch, Worker, PassBoundary,
       StopAtBoundary, WorkFails, WorkReturns, EndWork, recordVars
  <2>4. CASE UNCHANGED vars
    BY <2>4 DEF vars, recordVars
  <2>5. QED
    BY <2>1, <2>2, <2>3, <2>4 DEF Next
<1>2. QED
  BY <1>1, StateSteps DEF CancelInv

\* A job whose cancel is acknowledged while its worker has a boundary ahead
\* never succeeds, however the cancel falls between the worker's boundaries and
\* the loop's callbacks (JobManager.cancel and emit).
THEOREM Cancellation == Spec => CancelStopsAtNextBoundary
<1>1. Init => CancelInv /\ OutcomeInv
  BY DEF Init, CancelInv, OutcomeInv, Terminal, Idle, At, Jobs, NoJob
<1>2. TypeOK /\ IInv /\ CancelInv /\ OutcomeInv /\ [Next]_vars => CancelInv' /\ OutcomeInv'
  BY CancelStep, OutcomeStep
<1>3. ASSUME NEW j \in Jobs
      PROVE  Spec => [](cancel[j] /\ ~PastLastBoundary(j) => [](state[j] # "succeeded"))
  <2>1. CancelInv /\ cancel[j] /\ ~PastLastBoundary(j) => Doomed(j)
    BY DEF CancelInv, PastLastBoundary, Doomed
  <2>2. TypeOK /\ IInv /\ Doomed(j) /\ [Next]_vars => Doomed(j)'
    BY DoomedStep
  <2>3. TypeOK /\ IInv /\ OutcomeInv /\ Doomed(j) => state[j] # "succeeded"
    <3> SUFFICES ASSUME TypeOK, IInv, OutcomeInv, Doomed(j), state[j] = "succeeded" PROVE FALSE
      OBVIOUS
    <3>1. EndState(j) = "succeeded" /\ worker[j] = "returned"
      BY DEF OutcomeInv, IInv, RecordInv, TypeOK, Terminal
    <3>2. outcome[j] = "succeeded"
      BY <3>1 DEF EndState
    <3>3. QED
      BY <3>1, <3>2 DEF Doomed
  <2>4. QED
    BY <1>1, <1>2, <2>1, <2>2, <2>3, Invariant, PTL DEF Spec
<1>4. QED
  BY <1>3 DEF CancelStopsAtNextBoundary

-----------------------------------------------------------------------------
(***************************************************************************)
(* JobManager implements DatasetJobs: every behaviour of the loop, the     *)
(* locks and the executor is one the manager promises its clients.  The    *)
(* state of the promise is part of the manager's own (phase is state,      *)
(* requested is cancel, published is store), so each step is shown to be a *)
(* step of the promise or to leave these variables alone.                  *)
(***************************************************************************)

-----------------------------------------------------------------------------
(* Jobs get their turn in the order of submission. *)

\* A queued job was submitted.
LEMMA QueuedSubmitted ==
    ASSUME TypeOK, IInv, NEW j \in Jobs, state[j] = "queued"
    PROVE  j <= submitted
  BY DEF IInv, RecordInv, TypeOK, Jobs, JobOrNone

\* What a job that is queued for a lock precedes.
LEMMA WaitersTurn ==
    ASSUME TurnInv, NEW l \in LockKeys, NEW m \in 1..Len(waiters[l])
    PROVE  /\ \A n \in 1..Len(waiters[l]) : m < n => waiters[l][m] < waiters[l][n]
           /\ \A n \in 1..Len(ready) : ready[n].op = "start" => waiters[l][m] < ready[n].job
  BY DEF TurnInv, WaitersOrder

\* The loop takes its next callback, or none, or is handed one that starts no
\* job: no job becomes queued, and none is queued whose task has just started.
LEMMA TurnKept ==
    ASSUME TypeOK, TurnInv, UNCHANGED <<kind, dataset, waiters>>,
           \A i \in Jobs : state'[i] = "queued" => state[i] = "queued",
           \/ ready' = ready
           \/ \E c \in Callbacks : c.op # "start" /\ ready' = Append(ready, c)
           \/ /\ ready # <<>> /\ ready' = Tail(ready)
              /\ Head(ready).op = "start" => state'[Head(ready).job] # "queued"
    PROVE  TurnInv'
<1>1. /\ \A i \in Jobs : LockKey(i)' = LockKey(i) /\ (NotWaiting(i) <=> NotWaiting(i)')
      /\ ready \in Seq(Callbacks) /\ Len(ready) \in Nat
  BY DEF LockKey, NotWaiting, TypeOK
<1>2. CASE ready' = ready
  BY <1>1, <1>2 DEF TurnInv, QueuedInv, StartOrder, WaitersOrder, Starting
<1>3. ASSUME NEW c \in Callbacks, c.op # "start", ready' = Append(ready, c) PROVE TurnInv'
  <2>1. /\ Len(ready') = Len(ready) + 1 /\ ready'[Len(ready) + 1] = c
        /\ \A n \in 1..Len(ready) : ready'[n] = ready[n] /\ n \in 1..Len(ready')
        /\ \A n \in 1..Len(ready') : ready'[n].op = "start" => n \in 1..Len(ready)
    BY <1>1, <1>3, AppendFacts
  <2>2. QueuedInv'
    BY <1>1, <2>1 DEF TurnInv, QueuedInv, Starting
  <2>3. StartOrder' /\ WaitersOrder'
    BY <2>1 DEF TurnInv, StartOrder, WaitersOrder
  <2>4. QED
    BY <2>2, <2>3 DEF TurnInv
<1>4. CASE /\ ready # <<>> /\ ready' = Tail(ready)
           /\ Head(ready).op = "start" => state'[Head(ready).job] # "queued"
  <2>1. /\ Head(ready) = ready[1] /\ Len(ready) \in Nat \ {0} /\ Len(ready') = Len(ready) - 1
        /\ \A n \in 1..Len(ready') : n + 1 \in 1..Len(ready) /\ ready'[n] = ready[n + 1]
    BY <1>1, <1>4, TailFacts
  <2>2. QueuedInv'
    <3> SUFFICES ASSUME NEW i \in Jobs, state'[i] = "queued", NotWaiting(i)'
                 PROVE  Starting(i)'
      BY DEF QueuedInv
    <3>1. PICK n \in 1..Len(ready) : ready[n] = Callback("start", i)
      BY <1>1 DEF TurnInv, QueuedInv, Starting
    <3>2. ready[n].op = "start" /\ ready[n].job = i
      BY <3>1 DEF Callback
    <3>3. n # 1
      BY <1>4, <2>1, <3>2
    <3>4. n - 1 \in 1..Len(ready') /\ ready'[n - 1] = ready[n]
      BY <2>1, <3>3
    <3>5. QED
      BY <3>1, <3>4 DEF Starting
  <2>3. StartOrder'
    <3> SUFFICES ASSUME NEW m \in 1..Len(ready'), NEW n \in 1..Len(ready'), m < n,
                        ready'[m].op = "start", ready'[n].op = "start"
                 PROVE  ready'[m].job < ready'[n].job
      BY DEF StartOrder
    <3>1. /\ m + 1 \in 1..Len(ready) /\ n + 1 \in 1..Len(ready) /\ m + 1 < n + 1
          /\ ready'[m] = ready[m + 1] /\ ready'[n] = ready[n + 1]
      BY <2>1
    <3>2. QED
      BY <3>1 DEF TurnInv, StartOrder
  <2>4. WaitersOrder'
    <3> SUFFICES ASSUME NEW l \in LockKeys, NEW m \in 1..Len(waiters[l])
                 PROVE  /\ \A n \in 1..Len(waiters[l]) : m < n => waiters[l][m] < waiters[l][n]
                        /\ \A n \in 1..Len(ready') :
                              ready'[n].op = "start" => waiters[l][m] < ready'[n].job
      BY DEF WaitersOrder
    <3>1. \A n \in 1..Len(waiters[l]) : m < n => waiters[l][m] < waiters[l][n]
      BY WaitersTurn
    <3>2. \A n \in 1..Len(ready) : ready[n].op = "start" => waiters[l][m] < ready[n].job
      BY WaitersTurn
    <3>3. QED
      BY <2>1, <3>1, <3>2
  <2>5. QED
    BY <2>2, <2>3, <2>4 DEF TurnInv
<1>5. QED
  BY <1>2, <1>3, <1>4

\* A new job is the last to start.
LEMMA TurnCreate ==
    ASSUME TypeOK, IInv, TurnInv, NEW j \in Jobs, NEW k \in Kinds, NEW d \in Ids,
           j = submitted + 1, CreateJob(j, k, d), UNCHANGED waiters
    PROVE  TurnInv'
<1>1. /\ Callback("start", j) \in Callbacks
      /\ Callback("start", j).op = "start" /\ Callback("start", j).job = j
  BY CallbackTypes DEF Callback
<1>2. /\ Len(ready) \in Nat /\ Len(ready') = Len(ready) + 1
      /\ ready'[Len(ready) + 1] = Callback("start", j)
      /\ \A n \in 1..Len(ready) : ready'[n] = ready[n] /\ n \in 1..Len(ready')
      /\ \A n \in 1..Len(ready') : n \in 1..Len(ready) \/ n = Len(ready) + 1
  BY <1>1, AppendFacts DEF TypeOK, CreateJob
<1>3. /\ state[j] = "absent"
      /\ \A i \in Jobs : i # j =>
            state'[i] = state[i] /\ kind'[i] = kind[i] /\ dataset'[i] = dataset[i]
  BY DEF CreateJob, TypeOK, IInv, RecordInv, JobOrNone, Jobs
<1>4. \A i \in Jobs : state[i] = "queued" => i < j
  BY QueuedSubmitted DEF Jobs, TypeOK, JobOrNone
<1>5. \A n \in 1..Len(ready) : ready[n].op = "start" => ready[n].job \in Jobs /\ ready[n].job < j
  <2>1. \A n \in 1..Len(ready) : ready[n] \in Callbacks /\ CallbackOK(ready[n])
    BY DEF IInv, ReadyInv, TypeOK
  <2>2. \A c \in Callbacks : c.job \in Jobs
    BY DEF Callbacks
  <2>3. QED
    BY <1>4, <2>1, <2>2 DEF CallbackOK
<1>6. \A l \in LockKeys : \A m \in 1..Len(waiters[l]) : waiters[l][m] \in Jobs /\ waiters[l][m] < j
  <2>1. \A l \in LockKeys : \A m \in 1..Len(waiters[l]) :
            waiters[l][m] \in Jobs /\ state[waiters[l][m]] = "queued"
    BY DEF IInv, WaitersInv, TypeOK
  <2>2. QED
    BY <1>4, <2>1
<1>7. QueuedInv'
  <2> SUFFICES ASSUME NEW i \in Jobs, state'[i] = "queued", NotWaiting(i)'
               PROVE  Starting(i)'
    BY DEF QueuedInv
  <2>1. CASE i = j
    <3>1. Len(ready) + 1 \in 1..Len(ready')
      BY <1>2
    <3>2. QED
      BY <1>2, <2>1, <3>1 DEF Starting
  <2>2. CASE i # j
    <3>1. NotWaiting(i)
      BY <1>3, <2>2 DEF NotWaiting, LockKey
    <3>2. PICK n \in 1..Len(ready) : ready[n] = Callback("start", i)
      BY <1>3, <2>2, <3>1 DEF TurnInv, QueuedInv, Starting
    <3>3. QED
      BY <1>2, <3>2 DEF Starting
  <2>3. QED
    BY <2>1, <2>2
<1>8. StartOrder'
  <2> SUFFICES ASSUME NEW m \in 1..Len(ready'), NEW n \in 1..Len(ready'), m < n,
                      ready'[m].op = "start", ready'[n].op = "start"
               PROVE  ready'[m].job < ready'[n].job
    BY DEF StartOrder
  <2>1. m \in 1..Len(ready)
    BY <1>2
  <2>2. CASE n \in 1..Len(ready)
    BY <1>2, <2>1, <2>2 DEF TurnInv, StartOrder
  <2>3. CASE n = Len(ready) + 1
    BY <1>1, <1>2, <1>5, <2>1, <2>3
  <2>4. QED
    BY <1>2, <2>2, <2>3
<1>9. WaitersOrder'
  <2> SUFFICES ASSUME NEW l \in LockKeys, NEW m \in 1..Len(waiters[l]),
                      NEW n \in 1..Len(ready'), ready'[n].op = "start"
               PROVE  waiters[l][m] < ready'[n].job
    BY DEF TurnInv, WaitersOrder
  <2>1. CASE n \in 1..Len(ready)
    BY <1>2, <2>1 DEF TurnInv, WaitersOrder
  <2>2. CASE n = Len(ready) + 1
    BY <1>1, <1>2, <1>6, <2>2
  <2>3. QED
    BY <1>2, <2>1, <2>2
<1>10. QED
  BY <1>7, <1>8, <1>9 DEF TurnInv

\* The job whose task starts while its lock is taken is queued behind the
\* others, and before every job whose task has still to start.
LEMMA TurnWait ==
    ASSUME TypeOK, IInv, TurnInv, NEW j \in Jobs, StartIngest(j), ~LockFree(LockKey(j))
    PROVE  TurnInv'
<1> DEFINE l == LockKey(j)
<1>1. /\ ready # <<>> /\ ready \in Seq(Callbacks) /\ ready' = Tail(ready)
      /\ Head(ready).op = "start" /\ Head(ready).job = j
      /\ l \in LockKeys /\ waiters[l] \in Seq(Jobs)
      /\ waiters' = [waiters EXCEPT ![l] = Append(@, j)]
      /\ UNCHANGED <<kind, dataset, state>>
  BY LockKeyType DEF StartIngest, Runs, requestVars, TypeOK
<1>2. /\ Head(ready) = ready[1] /\ Len(ready) \in Nat \ {0} /\ Len(ready') = Len(ready) - 1
      /\ \A n \in 1..Len(ready') : n + 1 \in 1..Len(ready) /\ ready'[n] = ready[n + 1]
  BY <1>1, TailFacts
<1>3. /\ Len(waiters[l]) \in Nat /\ Len(waiters'[l]) = Len(waiters[l]) + 1
      /\ waiters'[l][Len(waiters[l]) + 1] = j
      /\ \A m \in 1..Len(waiters[l]) : waiters'[l][m] = waiters[l][m] /\ m \in 1..Len(waiters'[l])
      /\ \A m \in 1..Len(waiters'[l]) : m \in 1..Len(waiters[l]) \/ m = Len(waiters[l]) + 1
      /\ \A k \in LockKeys : k # l => waiters'[k] = waiters[k]
  <2>1. /\ waiters'[l] = Append(waiters[l], j)
        /\ \A k \in LockKeys : k # l => waiters'[k] = waiters[k]
    BY <1>1 DEF TypeOK
  <2>2. QED
    BY <1>1, <2>1, AppendFacts
<1> HIDE DEF l
<1>4. /\ \A n \in 1..Len(ready') : ready'[n].op = "start" => j < ready'[n].job
      /\ \A m \in 1..Len(waiters[l]) : waiters[l][m] < j
  <2>1. 1 \in 1..Len(ready) /\ ready[1].op = "start" /\ ready[1].job = j
    BY <1>1, <1>2
  <2>2. \A n \in 1..Len(ready') : 1 < n + 1
    BY <1>2
  <2>3. QED
    BY <1>1, <1>2, <2>1, <2>2 DEF TurnInv, StartOrder, WaitersOrder
<1>5. QueuedInv'
  <2> SUFFICES ASSUME NEW i \in Jobs, state'[i] = "queued", NotWaiting(i)'
               PROVE  Starting(i)'
    BY DEF QueuedInv
  <2>1. LockKey(i)' = LockKey(i) /\ LockKey(i) \in LockKeys
    BY <1>1, LockKeyType DEF LockKey
  <2>2. i # j
    <3>1. Len(waiters[l]) + 1 \in 1..Len(waiters'[l])
      BY <1>3
    <3>2. QED
      BY <1>3, <2>1, <3>1 DEF NotWaiting, l
  <2>3. NotWaiting(i)
    BY <1>3, <2>1 DEF NotWaiting
  <2>4. PICK n \in 1..Len(ready) : ready[n] = Callback("start", i)
    BY <1>1, <2>3 DEF TurnInv, QueuedInv, Starting
  <2>5. n # 1
    BY <1>1, <1>2, <2>2, <2>4 DEF Callback
  <2>6. n - 1 \in 1..Len(ready') /\ ready'[n - 1] = ready[n]
    BY <1>2, <2>5
  <2>7. QED
    BY <2>4, <2>6 DEF Starting
<1>6. StartOrder'
  <2> SUFFICES ASSUME NEW m \in 1..Len(ready'), NEW n \in 1..Len(ready'), m < n,
                      ready'[m].op = "start", ready'[n].op = "start"
               PROVE  ready'[m].job < ready'[n].job
    BY DEF StartOrder
  <2>1. /\ m + 1 \in 1..Len(ready) /\ n + 1 \in 1..Len(ready) /\ m + 1 < n + 1
        /\ ready'[m] = ready[m + 1] /\ ready'[n] = ready[n + 1]
    BY <1>2
  <2>2. QED
    BY <2>1 DEF TurnInv, StartOrder
<1>7. WaitersOrder'
  <2> SUFFICES ASSUME NEW k \in LockKeys, NEW m \in 1..Len(waiters'[k])
               PROVE  /\ \A n \in 1..Len(waiters'[k]) : m < n => waiters'[k][m] < waiters'[k][n]
                      /\ \A n \in 1..Len(ready') :
                            ready'[n].op = "start" => waiters'[k][m] < ready'[n].job
    BY DEF WaitersOrder
  <2>1. CASE k # l
    <3>1. waiters'[k] = waiters[k]
      BY <1>3, <2>1
    <3>2. QED
      BY <1>2, <3>1, WaitersTurn
  <2>2. CASE k = l /\ m \in 1..Len(waiters[l])
    <3>1. waiters'[k][m] = waiters[l][m] /\ waiters[l][m] < j
      BY <1>3, <1>4, <2>2
    <3>2. \A n \in 1..Len(waiters'[k]) : m < n => waiters'[k][m] < waiters'[k][n]
      BY <1>1, <1>3, <2>2, <3>1 DEF TurnInv, WaitersOrder
    <3>3. \A n \in 1..Len(ready') :
              ready'[n].op = "start" => waiters'[k][m] < ready'[n].job
      BY <1>1, <1>2, <2>2, <3>1 DEF TurnInv, WaitersOrder
    <3>4. QED
      BY <3>2, <3>3
  <2>3. CASE k = l /\ m = Len(waiters[l]) + 1
    BY <1>3, <1>4, <2>3
  <2>4. QED
    BY <1>3, <2>1, <2>2, <2>3
<1>8. QED
  BY <1>5, <1>6, <1>7 DEF TurnInv

\* The job that wakes up was the first of its lock's queue.
LEMMA TurnAcquire ==
    ASSUME TypeOK, IInv, TurnInv, NEW j \in Jobs, AcquireLock(j)
    PROVE  TurnInv'
<1> DEFINE l == LockKey(j)
<1>1. /\ ready # <<>> /\ ready \in Seq(Callbacks) /\ ready' = Tail(ready)
      /\ Head(ready).op = "acquired" /\ Head(ready).job = j
      /\ l \in LockKeys /\ waiters[l] \in Seq(Jobs)
      /\ waiters' = [waiters EXCEPT ![l] = Tail(@)]
      /\ state' = [state EXCEPT ![j] = "running"]
      /\ UNCHANGED <<kind, dataset>>
  BY LockKeyType DEF AcquireLock, EnterRun, Runs, requestVars, TypeOK
<1>2. /\ Head(ready) = ready[1] /\ Len(ready) \in Nat \ {0} /\ Len(ready') = Len(ready) - 1
      /\ \A n \in 1..Len(ready') : n + 1 \in 1..Len(ready) /\ ready'[n] = ready[n + 1]
  BY <1>1, TailFacts
<1>3. waiters[l] # <<>> /\ Head(waiters[l]) = j
  <2>1. 1 \in 1..Len(ready)
    BY <1>2
  <2>2. CallbackOK(ready[1])
    BY <2>1 DEF IInv, ReadyInv
  <2>3. QED
    BY <1>1, <1>2, <2>2 DEF CallbackOK
<1>4. /\ Len(waiters[l]) \in Nat \ {0} /\ Len(waiters'[l]) = Len(waiters[l]) - 1
      /\ waiters[l][1] = j
      /\ \A m \in 1..Len(waiters'[l]) :
            m + 1 \in 1..Len(waiters[l]) /\ waiters'[l][m] = waiters[l][m + 1]
      /\ \A k \in LockKeys : k # l => waiters'[k] = waiters[k]
  <2>1. /\ waiters'[l] = Tail(waiters[l])
        /\ \A k \in LockKeys : k # l => waiters'[k] = waiters[k]
    BY <1>1 DEF TypeOK
  <2>2. /\ Len(waiters[l]) \in Nat \ {0} /\ waiters[l][1] = j
        /\ Len(Tail(waiters[l])) = Len(waiters[l]) - 1
        /\ \A m \in 1..Len(Tail(waiters[l])) :
              m + 1 \in 1..Len(waiters[l]) /\ Tail(waiters[l])[m] = waiters[l][m + 1]
    BY <1>1, <1>3, TailFacts
  <2>3. QED
    BY <2>1, <2>2
<1> HIDE DEF l
<1>5. QueuedInv'
  <2> SUFFICES ASSUME NEW i \in Jobs, state'[i] = "queued", NotWaiting(i)'
               PROVE  Starting(i)'
    BY DEF QueuedInv
  <2>1. /\ LockKey(i)' = LockKey(i) /\ LockKey(i) \in LockKeys
        /\ i # j /\ state[i] = "queued"
    BY <1>1, LockKeyType DEF LockKey, TypeOK
  <2>2. NotWaiting(i)
    <3> SUFFICES ASSUME NEW m \in 1..Len(waiters[LockKey(i)]), waiters[LockKey(i)][m] = i
                 PROVE  FALSE
      BY DEF NotWaiting
    <3>1. CASE LockKey(i) = l
      <4>1. m # 1
        BY <1>4, <2>1, <3>1
      <4>2. m - 1 \in 1..Len(waiters'[l]) /\ waiters'[l][m - 1] = waiters[l][m]
        BY <1>4, <3>1, <4>1
      <4>3. QED
        BY <2>1, <3>1, <4>2 DEF NotWaiting
    <3>2. CASE LockKey(i) # l
      BY <1>4, <2>1, <3>2 DEF NotWaiting
    <3>3. QED
      BY <3>1, <3>2
  <2>3. PICK n \in 1..Len(ready) : ready[n] = Callback("start", i)
    BY <2>1, <2>2 DEF TurnInv, QueuedInv, Starting
  <2>4. n # 1
    BY <1>1, <1>2, <2>3 DEF Callback
  <2>5. n - 1 \in 1..Len(ready') /\ ready'[n - 1] = ready[n]
    BY <1>2, <2>4
  <2>6. QED
    BY <2>3, <2>5 DEF Starting
<1>6. StartOrder'
  <2> SUFFICES ASSUME NEW m \in 1..Len(ready'), NEW n \in 1..Len(ready'), m < n,
                      ready'[m].op = "start", ready'[n].op = "start"
               PROVE  ready'[m].job < ready'[n].job
    BY DEF StartOrder
  <2>1. /\ m + 1 \in 1..Len(ready) /\ n + 1 \in 1..Len(ready) /\ m + 1 < n + 1
        /\ ready'[m] = ready[m + 1] /\ ready'[n] = ready[n + 1]
    BY <1>2
  <2>2. QED
    BY <2>1 DEF TurnInv, StartOrder
<1>7. WaitersOrder'
  <2> SUFFICES ASSUME NEW k \in LockKeys, NEW m \in 1..Len(waiters'[k])
               PROVE  /\ \A n \in 1..Len(waiters'[k]) : m < n => waiters'[k][m] < waiters'[k][n]
                      /\ \A n \in 1..Len(ready') :
                            ready'[n].op = "start" => waiters'[k][m] < ready'[n].job
    BY DEF WaitersOrder
  <2>1. CASE k # l
    <3>1. waiters'[k] = waiters[k]
      BY <1>4, <2>1
    <3>2. QED
      BY <1>2, <3>1, WaitersTurn
  <2>2. CASE k = l
    <3>1. m + 1 \in 1..Len(waiters[l]) /\ waiters'[l][m] = waiters[l][m + 1]
      BY <1>4, <2>2
    <3>2. \A n \in 1..Len(waiters'[l]) :
              /\ m < n => m + 1 < n + 1
              /\ n + 1 \in 1..Len(waiters[l]) /\ waiters'[l][n] = waiters[l][n + 1]
      BY <1>4, <2>2
    <3>3. \A n \in 1..Len(waiters'[l]) : m < n => waiters'[l][m] < waiters'[l][n]
      BY <2>2, <3>1, <3>2, WaitersTurn
    <3>4. \A n \in 1..Len(ready') :
              ready'[n].op = "start" => waiters'[l][m] < ready'[n].job
      BY <1>2, <2>2, <3>1, WaitersTurn
    <3>5. QED
      BY <2>2, <3>3, <3>4
  <2>3. QED
    BY <2>1, <2>2
<1>8. QED
  BY <1>5, <1>6, <1>7 DEF TurnInv

\* Every step keeps the turns.
LEMMA TurnStep == TypeOK /\ IInv /\ TurnInv /\ [Next]_vars => TurnInv'
<1> SUFFICES ASSUME TypeOK, IInv, TurnInv, [Next]_vars PROVE TurnInv'
  OBVIOUS
<1>1. ASSUME NEW j \in Jobs, NEW r \in Requests, SubmitIngest(j, r[1], r[2]) PROVE TurnInv'
  <2>1. r[2] \in Ids /\ "ingest" \in Kinds
    BY ConstantsAssumption DEF Kinds
  <2>2. QED
    BY <1>1, <2>1, TurnCreate DEF SubmitIngest, lockVars
<1>2. ASSUME NEW j \in Jobs, NEW d \in Datasets, SubmitQuery(j, d) PROVE TurnInv'
  <2>1. d \in Ids /\ "query" \in Kinds
    BY DEF Ids, Kinds
  <2>2. QED
    BY <1>2, <2>1, TurnCreate DEF SubmitQuery, lockVars
<1>3. ASSUME NEW j \in Jobs, Cancel(j) PROVE TurnInv'
  BY <1>3, TurnKept DEF Cancel, requestVars, lockVars
<1>4. ASSUME NEW j \in Jobs, Loop(j) PROVE TurnInv'
  <2>1. CASE StartIngest(j) /\ ~LockFree(LockKey(j))
    BY <2>1, TurnWait
  <2>2. CASE StartIngest(j) /\ LockFree(LockKey(j))
    <3>1. /\ UNCHANGED <<kind, dataset, waiters>>
          /\ state' = [state EXCEPT ![j] = "running"]
          /\ ready # <<>> /\ ready' = Tail(ready) /\ Head(ready).job = j
      BY <2>2 DEF StartIngest, EnterRun, Runs, requestVars
    <3>2. /\ state'[j] # "queued"
          /\ \A i \in Jobs : state'[i] = "queued" => state[i] = "queued"
      BY <3>1 DEF TypeOK
    <3>3. QED
      BY <3>1, <3>2, TurnKept
  <2>3. CASE StartQuery(j)
    <3>1. /\ UNCHANGED <<kind, dataset, waiters>>
          /\ state' = [state EXCEPT ![j] = "running"]
          /\ ready # <<>> /\ ready' = Tail(ready) /\ Head(ready).job = j
      BY <2>3 DEF StartQuery, EnterRun, Runs, requestVars, lockVars
    <3>2. /\ state'[j] # "queued"
          /\ \A i \in Jobs : state'[i] = "queued" => state[i] = "queued"
      BY <3>1 DEF TypeOK
    <3>3. QED
      BY <3>1, <3>2, TurnKept
  <2>4. CASE AcquireLock(j)
    BY <2>4, TurnAcquire
  <2>5. CASE Publish(j) \/ Resume(j)
    <3>1. /\ UNCHANGED <<kind, dataset, waiters, state>>
          /\ ready # <<>> /\ ready' = Tail(ready) /\ Head(ready).op # "start"
      BY <2>5 DEF Publish, Resume, Runs, requestVars, recordVars, lockVars
    <3>2. QED
      BY <3>1, TurnKept
  <2>6. CASE SetResult(j) \/ RegisterDataset(j) \/ SetState(j) \/ SetError(j)
    <3>1. UNCHANGED <<kind, dataset, waiters, ready>>
      BY <2>6 DEF SetResult, RegisterDataset, SetState, SetError, requestVars, lockVars
    <3>2. \A i \in Jobs : state'[i] = "queued" => state[i] = "queued"
      <4>1. EndState(j) # "queued"
        BY DEF EndState
      <4>2. QED
        BY <2>6, <4>1
        DEF SetResult, RegisterDataset, SetState, SetError, recordVars, TypeOK
    <3>3. QED
      BY <3>1, <3>2, TurnKept
  <2>7. CASE Finish(j)
    <3>1. UNCHANGED <<kind, dataset, waiters, state>>
      BY <2>7 DEF Finish, ReleaseLock, requestVars, lockVars
    <3>2. CASE ready' = ready
      BY <3>1, <3>2, TurnKept
    <3>3. CASE ready' # ready
      <4>1. /\ waiters[LockKey(j)] # <<>>
            /\ ready' = Append(ready, Callback("acquired", Head(waiters[LockKey(j)])))
        BY <2>7, <3>3 DEF Finish, ReleaseLock, lockVars
      <4>2. waiters[LockKey(j)] \in Seq(Jobs)
        BY LockKeyType DEF TypeOK
      <4>3. Head(waiters[LockKey(j)]) \in Jobs
        BY <4>1, <4>2, TailFacts
      <4>4. /\ Callback("acquired", Head(waiters[LockKey(j)])) \in Callbacks
            /\ Callback("acquired", Head(waiters[LockKey(j)])).op # "start"
        BY <4>3, CallbackTypes DEF Callback
      <4>5. QED
        BY <3>1, <4>1, <4>4, TurnKept
    <3>4. QED
      BY <3>2, <3>3
  <2>8. QED
    BY <1>4, <2>1, <2>2, <2>3, <2>4, <2>5, <2>6, <2>7 DEF Loop
<1>5. ASSUME NEW j \in Jobs, Dispatch(j) PROVE TurnInv'
  BY <1>5, TurnKept DEF Dispatch, requestVars, recordVars, lockVars
<1>6. ASSUME NEW j \in Jobs, Worker(j) PROVE TurnInv'
  <2>1. ASSUME NEW s \in Stages, PassBoundary(j, s) PROVE TurnInv'
    <3>1. /\ Publication(j, s) \in Callbacks /\ Publication(j, s).op # "start"
          /\ ready' = Append(ready, Publication(j, s))
          /\ UNCHANGED <<kind, dataset, waiters, state>>
      BY <2>1, CallbackTypes
      DEF PassBoundary, Publication, requestVars, recordVars, lockVars
    <3>2. QED
      BY <3>1, TurnKept
  <2>2. ASSUME NEW o, EndWork(j, o) PROVE TurnInv'
    <3>1. /\ Callback("returned", j) \in Callbacks /\ Callback("returned", j).op # "start"
          /\ ready' = Append(ready, Callback("returned", j))
          /\ UNCHANGED <<kind, dataset, waiters, state>>
      BY <2>2, CallbackTypes DEF EndWork, Callback, requestVars, recordVars, lockVars
    <3>2. QED
      BY <3>1, TurnKept
  <2>3. QED
    BY <1>6, <2>1, <2>2 DEF Worker, StopAtBoundary, WorkFails, WorkReturns
<1>7. CASE UNCHANGED vars
  BY <1>7, TurnKept DEF vars, requestVars, recordVars, lockVars
<1>8. QED
  BY <1>1, <1>2, <1>3, <1>4, <1>5, <1>6, <1>7 DEF Next, Submission

-----------------------------------------------------------------------------
(* What is registered. *)

\* Steps that leave the store, the loop and the ended work's outcomes alone.
LEMMA StoreKept ==
    ASSUME TypeOK, IInv, StoreInv, UNCHANGED store,
           \A i \in Jobs : outcome[i] # "none" => outcome'[i] = outcome[i],
           \/ loop'.step \notin {"register", "state"}
           \/ UNCHANGED <<loop, kind, dataset>>
    PROVE  StoreInv'
<1>1. \A d \in Ids : store[d] # NoJob => store[d] \in Jobs
  BY ConstantsAssumption DEF TypeOK, JobOrNone, Jobs, NoJob
<1>2. \A d \in Ids : store'[d] # NoJob => outcome'[store'[d]] = "succeeded"
  BY <1>1 DEF StoreInv
<1>3. CASE loop'.step \notin {"register", "state"}
  BY <1>2, <1>3 DEF StoreInv, At
<1>4. CASE UNCHANGED <<loop, kind, dataset>>
  <2>1. ASSUME NEW i \in Jobs, loop = At("state", i) PROVE outcome'[i] = outcome[i]
    <3>1. loop.job = i /\ i # NoJob
      BY <2>1 DEF At, Jobs, NoJob
    <3>2. outcome[i] # "none"
      BY <3>1 DEF IInv, LoopInv, RecordInv
    <3>3. QED
      BY <3>2
  <2>2. QED
    BY <1>2, <1>4, <2>1 DEF StoreInv
<1>5. QED
  BY <1>3, <1>4

\* Every step keeps what is said of the store.
LEMMA StoreStep == TypeOK /\ IInv /\ OutcomeInv /\ StoreInv /\ [Next]_vars => StoreInv'
<1> SUFFICES ASSUME TypeOK, IInv, OutcomeInv, StoreInv, [Next]_vars PROVE StoreInv'
  OBVIOUS
<1>1. CASE Submission
  <2>1. UNCHANGED <<store, outcome, loop>> /\ loop = Idle
    BY <1>1 DEF Submission, SubmitIngest, SubmitQuery, workVars
  <2>2. QED
    BY <2>1, StoreKept DEF Idle
<1>2. ASSUME NEW j \in Jobs, Cancel(j) PROVE StoreInv'
  BY <1>2, StoreKept DEF Cancel, requestVars, workVars
<1>3. ASSUME NEW j \in Jobs, StartIngest(j) \/ StartQuery(j) \/ AcquireLock(j) \/ Publish(j)
      PROVE  StoreInv'
  <2>1. UNCHANGED <<store, outcome, loop, kind, dataset>>
    BY <1>3
    DEF StartIngest, StartQuery, AcquireLock, Publish, EnterRun, requestVars, workVars
  <2>2. QED
    BY <2>1, StoreKept
<1>4. ASSUME NEW j \in Jobs, Resume(j) PROVE StoreInv'
  <2>1. UNCHANGED <<store, outcome, kind, dataset>>
    BY <1>4 DEF Resume, requestVars, workVars
  <2>2. CASE outcome[j] = "succeeded"
    BY <1>4, <2>1, <2>2, StoreKept DEF Resume, At
  <2>3. CASE outcome[j] # "succeeded"
    BY <1>4, <2>1, <2>3 DEF Resume, At, StoreInv
  <2>4. QED
    BY <2>2, <2>3
<1>5. ASSUME NEW j \in Jobs, SetResult(j) PROVE StoreInv'
  BY <1>5 DEF SetResult, At, StoreInv, requestVars, workVars
<1>6. ASSUME NEW j \in Jobs, RegisterDataset(j) PROVE StoreInv'
  <2>1. /\ loop = At("register", j) /\ loop' = At("state", j)
        /\ UNCHANGED <<outcome, kind, dataset>> /\ dataset[j] \in Ids
        /\ store' = [store EXCEPT ![dataset[j]] = j] /\ store \in [Ids -> JobOrNone]
    BY <1>6 DEF RegisterDataset, requestVars, workVars, TypeOK
  <2>2. outcome[j] = "succeeded"
    BY <2>1 DEF OutcomeInv
  <2>3. QED
    BY <2>1, <2>2 DEF StoreInv, At
<1>7. ASSUME NEW j \in Jobs, SetState(j) \/ SetError(j) \/ Finish(j) PROVE StoreInv'
  <2>1. UNCHANGED <<store, outcome>>
    BY <1>7 DEF SetState, SetError, Finish, workVars
  <2>2. loop'.step \notin {"register", "state"}
    BY <1>7 DEF SetState, SetError, Finish, At, Idle
  <2>3. QED
    BY <2>1, <2>2, StoreKept
<1>8. ASSUME NEW j \in Jobs, Dispatch(j) PROVE StoreInv'
  BY <1>8, StoreKept DEF Dispatch, requestVars
<1>9. ASSUME NEW j \in Jobs, Worker(j) PROVE StoreInv'
  <2>1. ASSUME NEW s \in Stages, PassBoundary(j, s) PROVE StoreInv'
    BY <2>1, StoreKept DEF PassBoundary, requestVars
  <2>2. ASSUME NEW o, EndWork(j, o) PROVE StoreInv'
    <3>1. outcome[j] = "none"
      BY <2>2, WorkingFacts DEF EndWork
    <3>2. /\ UNCHANGED <<store, loop, kind, dataset>>
          /\ \A i \in Jobs : i # j => outcome'[i] = outcome[i]
      BY <2>2 DEF EndWork, requestVars, TypeOK
    <3>3. QED
      BY <3>1, <3>2, StoreKept
  <2>3. QED
    BY <1>9, <2>1, <2>2 DEF Worker, StopAtBoundary, WorkFails, WorkReturns
<1>10. CASE UNCHANGED vars
  BY <1>10, StoreKept DEF vars, requestVars, workVars
<1>11. QED
  BY <1>1, <1>2, <1>3, <1>4, <1>5, <1>6, <1>7, <1>8, <1>9, <1>10 DEF Next, Loop

\* The loop, the executor, the locks and the records agree, jobs take their
\* turn in the order of submission, and only what a pipeline returned is
\* registered.
LEMMA TurnsTaken == Spec => [](TypeOK /\ IInv /\ OutcomeInv /\ TurnInv /\ StoreInv)
<1>1. Init => TurnInv
  <2> SUFFICES ASSUME Init PROVE TurnInv
    OBVIOUS
  <2>1. /\ Len(ready) = 0 /\ \A l \in LockKeys : Len(waiters[l]) = 0
        /\ \A j \in Jobs : state[j] # "queued"
    BY DEF Init
  <2>2. QED
    BY <2>1 DEF TurnInv, QueuedInv, StartOrder, WaitersOrder
<1>2. Init => StoreInv /\ OutcomeInv
  BY DEF Init, StoreInv, OutcomeInv, Terminal, Idle, At, Jobs, NoJob
<1>3. QED
  BY <1>1, <1>2, Invariant, TurnStep, StoreStep, OutcomeStep, PTL DEF Spec

-----------------------------------------------------------------------------
(* The refinement. *)

\* An ingest that gets its lock finds every ingest of its dataset that was
\* submitted before it ended: none of them runs, for it would own the lock,
\* and none is queued, for its turn would have come first.
LEMMA EarlierEnded ==
    ASSUME TypeOK, IInv, TurnInv, NEW j \in Jobs, kind[j] = "ingest", state[j] = "queued",
           holder[LockKey(j)] = NoJob,
           \/ /\ ready # <<>> /\ Head(ready).op = "start" /\ Head(ready).job = j
              /\ waiters[LockKey(j)] = <<>>
           \/ waiters[LockKey(j)] # <<>> /\ Head(waiters[LockKey(j)]) = j
    PROVE  \A i \in Promise!Before(j) : state[i] \in Terminal
<1> SUFFICES ASSUME NEW i \in Promise!Before(j), state[i] \notin Terminal PROVE FALSE
  OBVIOUS
<1>1. /\ i \in Jobs /\ i \in Nat /\ j \in Nat /\ i < j /\ kind[i] = "ingest"
      /\ dataset[i] = dataset[j] /\ dataset[j] # EmptyId
  BY ConstantsAssumption DEF Promise!Before, Jobs
<1> DEFINE l == LockKey(j)
<1>2. LockKey(i) = l /\ l \in LockKeys
  BY <1>1, LockKeyType DEF LockKey
<1> HIDE DEF l
<1>3. state[i] # "running"
  <2>1. holder[l] = NoJob
    BY DEF l
  <2>2. QED
    BY <1>1, <1>2, <2>1 DEF IInv, OwnerInv, Jobs, NoJob
<1>4. state[i] = "queued"
  <2>1. state[i] # "absent"
    <3>1. j <= submitted
      BY QueuedSubmitted
    <3>2. QED
      BY <1>1, <3>1 DEF IInv, RecordInv, TypeOK, JobOrNone
  <2>2. QED
    BY <1>1, <1>3, <2>1 DEF TypeOK, States
<1>5. ready \in Seq(Callbacks) /\ waiters[l] \in Seq(Jobs)
  BY <1>2 DEF TypeOK
<1>6. CASE /\ ready # <<>> /\ Head(ready).op = "start" /\ Head(ready).job = j
           /\ waiters[l] = <<>>
  <2>1. 1 \in 1..Len(ready) /\ ready[1] = Head(ready)
    BY <1>5, <1>6, TailFacts
  <2>2. NotWaiting(i)
    BY <1>2, <1>6 DEF NotWaiting
  <2>3. PICK n \in 1..Len(ready) : ready[n] = Callback("start", i)
    BY <1>1, <1>4, <2>2 DEF TurnInv, QueuedInv, Starting
  <2>4. ready[n].op = "start" /\ ready[n].job = i
    BY <2>3 DEF Callback
  <2>5. 1 < n
    BY <1>1, <1>6, <2>1, <2>4
  <2>6. j < i
    BY <1>6, <2>1, <2>4, <2>5 DEF TurnInv, StartOrder
  <2>7. QED
    BY <1>1, <2>6
<1>7. CASE waiters[l] # <<>> /\ Head(waiters[l]) = j
  <2>1. 1 \in 1..Len(waiters[l]) /\ waiters[l][1] = j
    BY <1>5, <1>7, TailFacts
  <2>2. CASE Starting(i)
    <3>1. PICK n \in 1..Len(ready) : ready[n] = Callback("start", i)
      BY <2>2 DEF Starting
    <3>2. ready[n].op = "start" /\ ready[n].job = i
      BY <3>1 DEF Callback
    <3>3. j < i
      BY <1>2, <2>1, <3>2, WaitersTurn
    <3>4. QED
      BY <1>1, <3>3
  <2>3. CASE ~NotWaiting(i)
    <3>1. PICK m \in 1..Len(waiters[l]) : waiters[l][m] = i
      BY <1>2, <2>3 DEF NotWaiting
    <3>2. 1 < m
      BY <1>1, <2>1, <3>1
    <3>3. j < i
      BY <1>2, <2>1, <3>1, <3>2, WaitersTurn
    <3>4. QED
      BY <1>1, <3>3
  <2>4. QED
    BY <1>1, <1>4, <2>2, <2>3 DEF TurnInv, QueuedInv
<1>8. QED
  BY <1>6, <1>7 DEF l

\* A task that enters its work begins its job; one that must wait changes
\* nothing the promise speaks of.
LEMMA BeginStep ==
    ASSUME TypeOK, IInv, TurnInv, NEW j \in Jobs,
           StartIngest(j) \/ StartQuery(j) \/ AcquireLock(j)
    PROVE  Promise!Begin(j) \/ UNCHANGED Promise!vars
<1>1. /\ ready # <<>> /\ Head(ready).job = j
      /\ UNCHANGED <<submitted, kind, dataset, cancel, store>>
      /\ Head(ready) = ready[1] /\ 1 \in 1..Len(ready) /\ CallbackOK(ready[1])
  <2>1. /\ ready # <<>> /\ Head(ready).job = j
        /\ UNCHANGED <<submitted, kind, dataset, cancel, store>>
    BY DEF StartIngest, StartQuery, AcquireLock, Runs, requestVars
  <2>2. Head(ready) = ready[1] /\ 1 \in 1..Len(ready)
    BY <2>1, TailFacts DEF TypeOK
  <2>3. QED
    BY <2>1, <2>2 DEF IInv, ReadyInv
<1>2. CASE StartIngest(j) /\ LockFree(LockKey(j))
  <2>1. /\ kind[j] = "ingest" /\ Head(ready).op = "start"
        /\ holder[LockKey(j)] = NoJob /\ waiters[LockKey(j)] = <<>>
        /\ state' = [state EXCEPT ![j] = "running"]
    BY <1>2 DEF StartIngest, LockFree, EnterRun, Runs
  <2>2. state[j] = "queued"
    BY <1>1, <2>1 DEF CallbackOK
  <2>3. \A i \in Promise!Before(j) : state[i] \in Terminal
    BY <1>1, <2>1, <2>2, EarlierEnded
  <2>4. QED
    BY <1>1, <2>1, <2>2, <2>3 DEF Promise!Begin, Promise!Terminal, Terminal
<1>3. CASE StartIngest(j) /\ ~LockFree(LockKey(j))
  BY <1>1, <1>3 DEF StartIngest, Promise!vars
<1>4. CASE StartQuery(j)
  <2>1. /\ kind[j] = "query" /\ Head(ready).op = "start"
        /\ state' = [state EXCEPT ![j] = "running"]
    BY <1>4 DEF StartQuery, EnterRun, Runs
  <2>2. state[j] = "queued"
    BY <1>1, <2>1 DEF CallbackOK
  <2>3. QED
    BY <1>1, <2>1, <2>2 DEF Promise!Begin, Promise!Before
<1>5. CASE AcquireLock(j)
  <2>1. Head(ready).op = "acquired" /\ state' = [state EXCEPT ![j] = "running"]
    BY <1>5 DEF AcquireLock, EnterRun, Runs
  <2>2. /\ kind[j] = "ingest" /\ state[j] = "queued" /\ holder[LockKey(j)] = NoJob
        /\ waiters[LockKey(j)] # <<>> /\ Head(waiters[LockKey(j)]) = j
    BY <1>1, <2>1 DEF CallbackOK
  <2>3. \A i \in Promise!Before(j) : state[i] \in Terminal
    BY <2>2, EarlierEnded
  <2>4. QED
    BY <1>1, <2>1, <2>2, <2>3 DEF Promise!Begin, Promise!Terminal, Terminal
<1>6. QED
  BY <1>2, <1>3, <1>4, <1>5

\* The loop registers and ends a job as the promise allows.
LEMMA EndingStep ==
    ASSUME TypeOK, IInv, OutcomeInv, StoreInv, NEW j \in Jobs,
           RegisterDataset(j) \/ SetState(j)
    PROVE  Promise!Proceed(j)
<1>1. loop = At("register", j) \/ loop = At("state", j)
  BY DEF RegisterDataset, SetState
<1>2. loop.job = j /\ loop.step \in {"register", "state"} /\ j # NoJob
  BY <1>1 DEF At, Jobs, NoJob
<1>3. worker[j] = "returned" /\ ~done[j]
  BY <1>2 DEF IInv, LoopInv
<1>4. state[j] = "running"
  <2>1. state[j] \notin Terminal
    BY <1>1, <1>3 DEF IInv, RecordInv, At
  <2>2. state[j] \notin {"absent", "queued"}
    BY <1>3 DEF IInv, RecordInv
  <2>3. QED
    BY <2>1, <2>2 DEF TypeOK, States
<1>5. CASE RegisterDataset(j)
  <2>1. kind[j] = "ingest"
    BY <1>5 DEF RegisterDataset, StoreInv
  <2>2. Promise!Publish(j)
    BY <1>4, <1>5, <2>1 DEF RegisterDataset, Promise!Publish, requestVars, recordVars
  <2>3. QED
    BY <2>2 DEF Promise!Proceed
<1>6. CASE SetState(j)
  <2>1. /\ loop = At("state", j) /\ state' = [state EXCEPT ![j] = EndState(j)]
        /\ UNCHANGED <<submitted, kind, dataset, cancel, store>>
    BY <1>6 DEF SetState, requestVars
  <2>2. CASE outcome[j] = "succeeded"
    <3>1. EndState(j) = "succeeded"
      BY <2>2 DEF EndState
    <3>2. kind[j] = "ingest" => store[dataset[j]] = j
      BY <2>1, <2>2 DEF StoreInv
    <3>3. Promise!Succeed(j)
      BY <1>4, <2>1, <3>1, <3>2 DEF Promise!Succeed
    <3>4. QED
      BY <3>3 DEF Promise!Proceed
  <2>3. CASE outcome[j] # "succeeded"
    <3>1. EndState(j) \in {"failed", "cancelled"}
      BY <2>3 DEF EndState
    <3>2. EndState(j) = "cancelled" => cancel[j]
      BY DEF EndState, OutcomeInv
    <3>3. store[dataset[j]] # j
      BY <1>2, <2>3 DEF StoreInv, TypeOK
    <3>4. Promise!End(j, EndState(j))
      BY <1>4, <2>1, <3>2, <3>3 DEF Promise!End
    <3>5. QED
      BY <3>1, <3>4 DEF Promise!Proceed
  <2>4. QED
    BY <2>2, <2>3
<1>7. QED
  BY <1>5, <1>6

\* Every step of the manager is a step of the promise, or none at all.
LEMMA PromiseStep ==
    TypeOK /\ IInv /\ OutcomeInv /\ TurnInv /\ StoreInv /\ [Next]_vars
        => [Promise!Next]_Promise!vars
<1> SUFFICES ASSUME TypeOK, IInv, OutcomeInv, TurnInv, StoreInv, [Next]_vars
             PROVE  Promise!Next \/ UNCHANGED Promise!vars
  OBVIOUS
<1> USE DEF Promise!Jobs
<1>1. Jobs = Promise!Jobs
  BY DEF Jobs
<1>2. ASSUME NEW j \in Jobs, NEW r \in Requests, SubmitIngest(j, r[1], r[2])
      PROVE  Promise!Next
  <2>1. r[2] \in Promise!Ids
    BY ConstantsAssumption DEF Ids, Promise!Ids
  <2>2. Promise!Submit(j, "ingest", r[2])
    BY <1>2 DEF SubmitIngest, CreateJob, Promise!Submit
  <2>3. QED
    BY <1>1, <2>1, <2>2 DEF Promise!Next
<1>3. ASSUME NEW j \in Jobs, NEW d \in Datasets, SubmitQuery(j, d) PROVE Promise!Next
  <2>1. d \in Promise!Ids
    BY DEF Promise!Ids
  <2>2. Promise!Submit(j, "query", d)
    BY <1>3 DEF SubmitQuery, CreateJob, Promise!Submit, Promise!NoJob, NoJob
  <2>3. QED
    BY <1>1, <2>1, <2>2 DEF Promise!Next
<1>4. ASSUME NEW j \in Jobs, Cancel(j) PROVE Promise!Next
  <2>1. Promise!RequestCancel(j)
    BY <1>4 DEF Cancel, Promise!RequestCancel, requestVars
  <2>2. QED
    BY <1>1, <2>1 DEF Promise!Next
<1>5. ASSUME NEW j \in Jobs, Loop(j) PROVE Promise!Next \/ UNCHANGED Promise!vars
  <2>1. CASE StartIngest(j) \/ StartQuery(j) \/ AcquireLock(j)
    BY <1>1, <2>1, BeginStep DEF Promise!Next, Promise!Proceed
  <2>2. CASE RegisterDataset(j) \/ SetState(j)
    BY <1>1, <2>2, EndingStep DEF Promise!Next
  <2>3. CASE Publish(j) \/ Resume(j) \/ SetResult(j) \/ SetError(j) \/ Finish(j)
    BY <2>3 DEF Publish, Resume, SetResult, SetError, Finish, Promise!vars,
                requestVars, recordVars
  <2>4. QED
    BY <1>5, <2>1, <2>2, <2>3 DEF Loop
<1>6. ASSUME NEW j \in Jobs, Dispatch(j) PROVE UNCHANGED Promise!vars
  BY <1>6 DEF Dispatch, Promise!vars, requestVars, recordVars
<1>7. ASSUME NEW j \in Jobs, Worker(j) PROVE UNCHANGED Promise!vars
  BY <1>7 DEF Worker, PassBoundary, StopAtBoundary, WorkFails, WorkReturns, EndWork,
              Promise!vars, requestVars, recordVars
<1>8. CASE UNCHANGED vars
  BY <1>8 DEF vars, requestVars, recordVars, Promise!vars
<1>9. QED
  BY <1>2, <1>3, <1>4, <1>5, <1>6, <1>7, <1>8 DEF Next, Submission

\* The manager keeps its promise, as far as safety goes: jobs end once and for
\* all, the ingests of a dataset run one at a time in the order they were
\* submitted, and what is visible was published by an ingest that succeeds.
THEOREM Refinement == Spec => ImplementsPromise
<1>1. Init => Promise!Init
  BY DEF Init, Promise!Init, Promise!Jobs, Promise!Ids, Promise!NoJob, Jobs, Ids, NoJob
<1>2. QED
  BY <1>1, TurnsTaken, PromiseStep, PTL DEF Spec, ImplementsPromise, Promise!Spec

-----------------------------------------------------------------------------
(* What the refinement shows. *)

\* A step of the promise keeps ingests in order.
LEMMA OrderStep ==
    ASSUME TypeOK, IInv, InOrder, [Promise!Next]_Promise!vars
    PROVE  InOrder'
<1> SUFFICES ASSUME NEW x \in Jobs, NEW i \in Promise!Before(x)',
                    state'[x] \in Terminal \cup {"running"}
             PROVE  state'[i] \in Terminal
  BY DEF InOrder
<1> USE DEF Promise!Jobs, Jobs
<1>1. i \in Jobs /\ i < x /\ i # x /\ submitted \in Nat
  BY ConstantsAssumption DEF Promise!Before, TypeOK, JobOrNone
<1>2. ASSUME UNCHANGED <<kind, dataset>> PROVE i \in Promise!Before(x)
  BY <1>2 DEF Promise!Before
<1>3. ASSUME i \in Promise!Before(x), state[x] \in Terminal \cup {"running"}
      PROVE  state[i] \in Terminal
  BY <1>3 DEF InOrder
<1>4. ASSUME NEW j \in Jobs, NEW k \in {"ingest", "query"}, NEW d \in Promise!Ids,
             Promise!Submit(j, k, d)
      PROVE  state'[i] \in Terminal
  <2>1. /\ j = submitted + 1 /\ state' = [state EXCEPT ![j] = "queued"]
        /\ kind' = [kind EXCEPT ![j] = k] /\ dataset' = [dataset EXCEPT ![j] = d]
    BY <1>4 DEF Promise!Submit
  <2>2. x # j
    BY <2>1 DEF TypeOK, Terminal
  <2>3. state[x] \in Terminal \cup {"running"}
    BY <2>1, <2>2 DEF TypeOK
  <2>4. x <= submitted
    BY <2>3, <1>1 DEF IInv, RecordInv, Terminal
  <2>5. i # j
    BY <1>1, <2>1, <2>4
  <2>6. i \in Promise!Before(x)
    BY <1>1, <2>1, <2>2, <2>5 DEF Promise!Before, TypeOK
  <2>7. QED
    BY <1>1, <1>3, <2>1, <2>3, <2>5, <2>6 DEF TypeOK
<1>5. ASSUME NEW j \in Jobs, Promise!Begin(j) PROVE state'[i] \in Terminal
  <2>1. /\ state[j] = "queued" /\ \A n \in Promise!Before(j) : state[n] \in Terminal
        /\ state' = [state EXCEPT ![j] = "running"] /\ UNCHANGED <<kind, dataset>>
    BY <1>5 DEF Promise!Begin, Promise!Terminal, Terminal
  <2>2. i \in Promise!Before(x)
    BY <1>2, <2>1
  <2>3. state[i] \in Terminal
    BY <1>3, <2>1, <2>2 DEF TypeOK
  <2>4. i # j
    BY <2>1, <2>3 DEF Terminal
  <2>5. QED
    BY <1>1, <2>1, <2>3, <2>4 DEF TypeOK
<1>6. ASSUME NEW j \in Jobs, NEW p \in Terminal, state[j] = "running",
             state' = [state EXCEPT ![j] = p], UNCHANGED <<kind, dataset>>
      PROVE  state'[i] \in Terminal
  <2>1. i \in Promise!Before(x)
    BY <1>2, <1>6
  <2>2. state[i] \in Terminal
    BY <1>3, <1>6, <2>1 DEF TypeOK
  <2>3. QED
    BY <1>1, <1>6, <2>2 DEF TypeOK
<1>7. ASSUME UNCHANGED <<state, kind, dataset>> PROVE state'[i] \in Terminal
  BY <1>2, <1>3, <1>7
<1>8. ASSUME NEW j \in Jobs, Promise!Proceed(j) PROVE state'[i] \in Terminal
  <2>1. CASE Promise!Publish(j)
    BY <1>7, <2>1 DEF Promise!Publish
  <2>2. CASE Promise!Succeed(j)
    BY <1>6, <2>2 DEF Promise!Succeed, Terminal
  <2>3. CASE \E p \in {"failed", "cancelled"} : Promise!End(j, p)
    BY <1>6, <2>3 DEF Promise!End, Terminal
  <2>4. QED
    BY <1>5, <1>8, <2>1, <2>2, <2>3 DEF Promise!Proceed
<1>9. ASSUME NEW j \in Jobs, Promise!RequestCancel(j) PROVE state'[i] \in Terminal
  BY <1>7, <1>9 DEF Promise!RequestCancel
<1>10. CASE UNCHANGED Promise!vars
  BY <1>7, <1>10 DEF Promise!vars
<1>11. QED
  BY <1>4, <1>8, <1>9, <1>10 DEF Promise!Next

\* The newest dataset stays served by a step that neither registers one nor
\* declares an ingest succeeded.
LEMMA NewestKept ==
    ASSUME TypeOK, NewestServed, UNCHANGED store,
           \A i \in Jobs : state'[i] = "succeeded" <=> state[i] = "succeeded",
           \A i \in Jobs : state[i] = "succeeded" \/ loop = At("state", i) =>
                                dataset'[i] = dataset[i] /\ kind'[i] = kind[i],
           \A i \in Jobs : loop = At("state", i) => loop' = loop
    PROVE  NewestServed'
<1>1. ASSUME NEW d \in Ids, store[d] # NoJob
      PROVE  /\ dataset'[store[d]] = d
             /\ state'[store[d]] = "succeeded" \/ loop' = At("state", store[d])
  <2>1. store[d] \in Jobs
    BY <1>1 DEF TypeOK, JobOrNone, Jobs, NoJob
  <2>2. /\ dataset[store[d]] = d
        /\ state[store[d]] = "succeeded" \/ loop = At("state", store[d])
    BY <1>1 DEF NewestServed
  <2>3. QED
    BY <2>1, <2>2
<1>2. ASSUME NEW i \in Jobs, kind'[i] = "ingest", state'[i] = "succeeded", dataset'[i] # EmptyId
      PROVE  store[dataset'[i]] >= i
  BY <1>2 DEF NewestServed
<1>3. QED
  BY <1>1, <1>2 DEF NewestServed

\* Every step of the manager keeps the newest dataset served.
LEMMA NewestStep ==
    ASSUME TypeOK, IInv, OutcomeInv, StoreInv, InOrder, NewestServed, [Next]_vars
    PROVE  NewestServed'
<1>1. ASSUME NEW j \in Jobs, NEW k \in Kinds, NEW d \in Ids, j = submitted + 1,
             CreateJob(j, k, d), loop = Idle, UNCHANGED <<loop, store>>
      PROVE  NewestServed'
  <2>1. state[j] = "absent"
    BY <1>1, ConstantsAssumption DEF IInv, RecordInv, TypeOK, JobOrNone, Jobs
  <2>2. \A i \in Jobs : loop # At("state", i)
    BY <1>1 DEF At, Idle
  <2>3. \A i \in Jobs : i # j =>
            state'[i] = state[i] /\ dataset'[i] = dataset[i] /\ kind'[i] = kind[i]
    BY <1>1 DEF CreateJob, TypeOK
  <2>4. state'[j] = "queued"
    BY <1>1 DEF CreateJob, TypeOK
  <2>5. QED
    BY <1>1, <2>1, <2>2, <2>3, <2>4, NewestKept
<1>2. CASE Submission
  <2>1. \A r \in Requests : r[2] \in Ids
    BY ConstantsAssumption
  <2>2. QED
    BY <1>1, <1>2, <2>1 DEF Submission, SubmitIngest, SubmitQuery, Kinds, Ids
<1>3. ASSUME NEW j \in Jobs,
             StartIngest(j) \/ StartQuery(j) \/ AcquireLock(j) \/ Publish(j) \/ Resume(j)
      PROVE  NewestServed'
  <2>1. loop = Idle /\ UNCHANGED <<store, dataset, kind>>
    BY <1>3 DEF StartIngest, StartQuery, AcquireLock, Publish, Resume, Runs, requestVars
  <2>2. \A i \in Jobs : state'[i] \in {state[i], "running"}
    BY <1>3 DEF StartIngest, StartQuery, AcquireLock, Publish, Resume, EnterRun, recordVars, TypeOK
  <2>3. \A i \in Jobs : state[i] = "succeeded" => state'[i] = "succeeded"
    BY <1>3, StateSteps DEF Terminal
  <2>4. \A i \in Jobs : loop # At("state", i)
    BY <2>1 DEF At, Idle
  <2>5. QED
    BY <2>1, <2>2, <2>3, <2>4, NewestKept
<1>4. ASSUME NEW j \in Jobs, SetResult(j) \/ SetError(j) \/ Finish(j) PROVE NewestServed'
  <2>1. UNCHANGED <<store, dataset, kind, state>>
    BY <1>4 DEF SetResult, SetError, Finish, requestVars
  <2>2. \A i \in Jobs : loop # At("state", i)
    BY <1>4 DEF SetResult, SetError, Finish, At
  <2>3. QED
    BY <2>1, <2>2, NewestKept
<1>5. ASSUME NEW j \in Jobs, Cancel(j) \/ Dispatch(j) \/ Worker(j) PROVE NewestServed'
  <2>1. UNCHANGED <<store, dataset, kind, state, loop>>
    BY <1>5 DEF Cancel, Dispatch, Worker, PassBoundary, StopAtBoundary, WorkFails,
                WorkReturns, EndWork, requestVars, recordVars
  <2>2. QED
    BY <2>1, NewestKept
<1>6. ASSUME NEW j \in Jobs, RegisterDataset(j) PROVE NewestServed'
  <2>1. /\ loop = At("register", j) /\ loop' = At("state", j)
        /\ store' = [store EXCEPT ![dataset[j]] = j]
        /\ UNCHANGED <<kind, dataset, state>>
    BY <1>6 DEF RegisterDataset, requestVars, recordVars
  <2>2. kind[j] = "ingest" /\ \A i \in Jobs : loop # At("state", i)
    BY <2>1 DEF StoreInv, At
  <2>3. state[j] \notin Terminal
    <3>1. loop.job = j /\ loop # At("error", j) /\ loop # At("finish", j)
      BY <2>1 DEF At
    <3>2. ~done[j]
      BY <3>1, ConstantsAssumption DEF IInv, LoopInv, Jobs, NoJob
    <3>3. QED
      BY <3>1, <3>2 DEF IInv, RecordInv
  <2>4. ASSUME NEW d \in Ids, store'[d] # NoJob
        PROVE  /\ dataset[store'[d]] = d
               /\ state[store'[d]] = "succeeded" \/ loop' = At("state", store'[d])
    <3>1. CASE d = dataset[j]
      BY <2>1, <3>1 DEF TypeOK
    <3>2. CASE d # dataset[j]
      <4>1. store'[d] = store[d] /\ store[d] \in Jobs
        BY <2>1, <2>4, <3>2 DEF TypeOK, JobOrNone, Jobs, NoJob
      <4>2. QED
        BY <2>2, <2>4, <4>1 DEF NewestServed
    <3>3. QED
      BY <3>1, <3>2
  <2>5. ASSUME NEW i \in Jobs, kind[i] = "ingest", state[i] = "succeeded", dataset[i] # EmptyId
        PROVE  store'[dataset[i]] >= i
    <3>1. CASE dataset[i] = dataset[j]
      <4>1. ~(j < i)
        <5> SUFFICES ASSUME j < i PROVE FALSE
          OBVIOUS
        <5>1. j \in 1..(i - 1)
          BY ConstantsAssumption DEF Jobs
        <5>2. j \in Promise!Before(i)
          BY <2>2, <2>5, <3>1, <5>1 DEF Promise!Before
        <5>3. QED
          BY <2>3, <2>5, <5>2 DEF InOrder, Terminal
      <4>2. store'[dataset[i]] = j
        BY <2>1, <3>1 DEF TypeOK
      <4>3. QED
        BY <4>1, <4>2, ConstantsAssumption DEF Jobs
    <3>2. CASE dataset[i] # dataset[j]
      <4>1. store'[dataset[i]] = store[dataset[i]]
        BY <2>1, <3>2 DEF TypeOK
      <4>2. QED
        BY <2>5, <4>1 DEF NewestServed
    <3>3. QED
      BY <3>1, <3>2
  <2>6. QED
    BY <2>1, <2>4, <2>5 DEF NewestServed
<1>7. ASSUME NEW j \in Jobs, SetState(j) PROVE NewestServed'
  <2>1. /\ loop = At("state", j) /\ state' = [state EXCEPT ![j] = EndState(j)]
        /\ UNCHANGED <<store, kind, dataset>>
    BY <1>7 DEF SetState, requestVars
  <2>2. /\ EndState(j) = "succeeded" <=> outcome[j] = "succeeded"
        /\ \A i \in Jobs : i # j => loop # At("state", i)
    BY <2>1 DEF EndState, At
  <2>3. /\ state'[j] = EndState(j)
        /\ \A i \in Jobs : i # j => state'[i] = state[i]
    BY <2>1 DEF TypeOK
  <2>4. ASSUME NEW d \in Ids, store[d] # NoJob
        PROVE  dataset[store[d]] = d /\ state'[store[d]] = "succeeded"
    <3>1. store[d] \in Jobs /\ outcome[store[d]] = "succeeded"
      BY <2>4 DEF StoreInv, TypeOK, JobOrNone, Jobs, NoJob
    <3>2. QED
      BY <2>2, <2>3, <2>4, <3>1 DEF NewestServed
  <2>5. ASSUME NEW i \in Jobs, kind[i] = "ingest", state'[i] = "succeeded", dataset[i] # EmptyId
        PROVE  store[dataset[i]] >= i
    <3>1. CASE i = j
      <4>1. store[dataset[i]] = i
        BY <2>1, <2>2, <2>3, <2>5, <3>1 DEF StoreInv
      <4>2. QED
        BY <4>1 DEF Jobs
    <3>2. CASE i # j
      BY <2>3, <2>5, <3>2 DEF NewestServed
    <3>3. QED
      BY <3>1, <3>2
  <2>6. QED
    BY <2>1, <2>4, <2>5 DEF NewestServed
<1>8. CASE UNCHANGED vars
  BY <1>8, NewestKept DEF vars, requestVars, recordVars
<1>9. QED
  BY <1>2, <1>3, <1>4, <1>5, <1>6, <1>7, <1>8 DEF Next, Loop

\* The ingests of a dataset begin in the order of their submission, each when
\* the one before has ended, and the dataset that is served is never older
\* than the last ingest that was declared succeeded.
THEOREM ManagerInvariant == Spec => []ManagerInv
<1>1. Init => InOrder /\ NewestServed
  BY DEF Init, InOrder, NewestServed, Terminal, NoJob
<1>2. TypeOK /\ IInv /\ OutcomeInv /\ TurnInv /\ StoreInv /\ InOrder /\ NewestServed /\ [Next]_vars
          => InOrder' /\ NewestServed'
  BY PromiseStep, OrderStep, NewestStep
<1>3. QED
  BY <1>1, <1>2, TurnsTaken, PTL DEF Spec, ManagerInv
=============================================================================
