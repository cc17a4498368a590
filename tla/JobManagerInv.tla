---------------------------- MODULE JobManagerInv ----------------------------
(***************************************************************************)
(* The inductive invariant behind JobManager's safety properties: what the *)
(* loop's queue, the executor's queue, the locks and the job records have  *)
(* to do with one another in every state.                                  *)
(***************************************************************************)
EXTENDS JobManager

\* Job j is not queued for its lock.
NotWaiting(j) ==
    \A n \in 1..Len(waiters[LockKey(j)]) : waiters[LockKey(j)][n] # j

\* What a callback that is still scheduled says of its job.
CallbackOK(c) ==
    /\ c.op = "start" => state[c.job] = "queued" /\ NotWaiting(c.job)
    /\ c.op = "acquired" =>
          /\ kind[c.job] = "ingest" /\ state[c.job] = "queued"
          /\ holder[LockKey(c.job)] = NoJob
          /\ waiters[LockKey(c.job)] # <<>> /\ Head(waiters[LockKey(c.job)]) = c.job
    /\ c.op = "publish" => state[c.job] = "running" /\ worker[c.job] \in {"working", "returned"}
    /\ c.op = "returned" => state[c.job] = "running" /\ worker[c.job] = "returned"
    /\ loop.job # c.job

ReadyInv == \A n \in 1..Len(ready) : CallbackOK(ready[n])

\* Only publications are followed by other callbacks of their job.
ReadyOrder ==
    \A m, n \in 1..Len(ready) :
        m < n /\ ready[m].job = ready[n].job => ready[m].op = "publish"

WaitersInv ==
    \A l \in LockKeys : \A m \in 1..Len(waiters[l]) :
        /\ LockKey(waiters[l][m]) = l
        /\ kind[waiters[l][m]] = "ingest" /\ state[waiters[l][m]] = "queued"
        /\ \A n \in 1..Len(waiters[l]) : waiters[l][m] = waiters[l][n] => m = n

PoolInv ==
    \A m \in 1..Len(pool) :
        /\ worker[pool[m]] = "queued"
        /\ \A n \in 1..Len(pool) : pool[m] = pool[n] => m = n

\* The record, the worker and the loop agree on how far a job is.
RecordInv ==
    \A j \in Jobs :
        /\ state[j] = "absent" <=> j > submitted
        /\ worker[j] = "none" <=> state[j] \in {"absent", "queued"}
        /\ worker[j] \in {"queued", "working"} => state[j] = "running"
        /\ state[j] \in Terminal <=> done[j] \/ loop = At("error", j) \/ loop = At("finish", j)
        /\ outcome[j] # "none" <=> worker[j] = "returned"

LoopInv ==
    /\ loop.step = "idle" <=> loop.job = NoJob
    /\ loop.job # NoJob => worker[loop.job] = "returned" /\ ~done[loop.job]

\* An ingest owns its lock from the moment it is running until it releases it.
OwnerInv ==
    \A j \in Jobs : kind[j] = "ingest" /\ (state[j] = "running" \/ loop.job = j)
        => holder[LockKey(j)] = j

IInv == ReadyInv /\ ReadyOrder /\ WaitersInv /\ PoolInv /\ RecordInv /\ LoopInv /\ OwnerInv

\* Every key's job is the only one created under it that is not failed or
\* cancelled.
KeyInv ==
    \A k \in Keys : \A j \in createdUnder[k] :
        /\ kind[j] = "ingest" /\ state[j] # "absent"
        /\ j # idempotency[k] => state[j] \in {"failed", "cancelled"}

\* What the job carries, and what the loop has still to assign to it.
OutcomeInv ==
    \A j \in Jobs :
        /\ outcome[j] = "cancelled" => cancel[j]
        /\ loop = At("result", j) \/ loop = At("register", j) => outcome[j] = "succeeded"
        /\ loop = At("error", j) => outcome[j] # "succeeded"
        /\ state[j] \in Terminal => state[j] = EndState(j)
        /\ result[j] <=>
              /\ outcome[j] = "succeeded"
              /\ done[j] \/ (loop.job = j /\ loop.step # "result")
        /\ error[j] = IF outcome[j] # "succeeded" /\ (done[j] \/ loop = At("finish", j))
                      THEN outcome[j] ELSE "none"

\* Callback c publishes an event of job j.
Publishes(c, j) == c.op = "publish" /\ c.job = j

\* Position a is the last event of j's history e when the callbacks r publish no
\* more of them, and otherwise the last event they publish.
Trail(r, j, e, a) ==
    \/ /\ \A n \in 1..Len(r) : ~Publishes(r[n], j)
       /\ IF e = <<>> THEN a = "enter" ELSE e[Len(e)] = a
    \/ \E n \in 1..Len(r) :
          /\ Publishes(r[n], j) /\ r[n].stage = a
          /\ \A m \in 1..Len(r) : m > n => ~Publishes(r[m], j)

\* The last boundary a worker passed is the last event published, or the last
\* publication still scheduled.
HistoryInv == \A j \in Jobs : Trail(ready, j, events[j], at[j])

-----------------------------------------------------------------------------
(* What the refinement of DatasetJobs needs besides. *)

\* The first step of job j's task is still scheduled.
Starting(j) == \E n \in 1..Len(ready) : ready[n] = Callback("start", j)

\* A queued job has not been forgotten: its task is about to start, or it is
\* in the queue of its lock.
QueuedInv == \A j \in Jobs : state[j] = "queued" => Starting(j) \/ ~NotWaiting(j)

\* Tasks start in the order of submission.
StartOrder ==
    \A m, n \in 1..Len(ready) :
        m < n /\ ready[m].op = "start" /\ ready[n].op = "start"
            => ready[m].job < ready[n].job

\* Jobs queue for a lock in the order of submission, and before every job
\* whose task has still to start.
WaitersOrder ==
    \A l \in LockKeys : \A m \in 1..Len(waiters[l]) :
        /\ \A n \in 1..Len(waiters[l]) : m < n => waiters[l][m] < waiters[l][n]
        /\ \A n \in 1..Len(ready) : ready[n].op = "start" => waiters[l][m] < ready[n].job

TurnInv == QueuedInv /\ StartOrder /\ WaitersOrder

\* What is registered was returned by its pipeline, and an ingest that is about
\* to be declared succeeded has been registered.
StoreInv ==
    /\ \A d \in Ids : store[d] # NoJob => outcome[store[d]] = "succeeded"
    /\ \A j \in Jobs :
          /\ loop = At("register", j) => kind[j] = "ingest"
          /\ loop = At("state", j) /\ outcome[j] = "succeeded" /\ kind[j] = "ingest"
                => store[dataset[j]] = j

-----------------------------------------------------------------------------
(* What the refinement shows. *)

\* An ingest begins only when every earlier one of its dataset has ended.
InOrder ==
    \A j \in Jobs : \A i \in Promise!Before(j) :
        state[j] \in Terminal \cup {"running"} => state[i] \in Terminal

\* A dataset is served from an ingest of its own that succeeded, or is just
\* about to be declared so, and from no earlier one than the last of those.
NewestServed ==
    /\ \A d \in Ids : store[d] # NoJob =>
          /\ dataset[store[d]] = d
          /\ state[store[d]] = "succeeded" \/ loop = At("state", store[d])
    /\ \A j \in Jobs :
          kind[j] = "ingest" /\ state[j] = "succeeded" /\ dataset[j] # EmptyId
              => store[dataset[j]] >= j

\* The invariant a run checks: all that is proved of JobManager's states but
\* for what the jobs carry.
ManagerInv == IInv /\ TurnInv /\ StoreInv /\ InOrder /\ NewestServed

\* Only a job that exists is ever asked to stop.
CancelInv == \A j \in Jobs : cancel[j] => state[j] # "absent"

\* Job j can no longer succeed: it was asked to stop while its worker was short
\* of the last boundary, or its worker returned without a result.
Doomed(j) ==
    /\ cancel[j] /\ state[j] # "absent"
    /\ IF worker[j] = "returned" THEN outcome[j] # "succeeded"
                                ELSE at[j] \notin ReturnsFrom[kind[j]]
=============================================================================
