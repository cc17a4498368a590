--------------------------- MODULE JobClientsProofs ---------------------------
(***************************************************************************)
(* The clients change nothing of the job layer, so everything proved of    *)
(* JobManager holds with them; and what they receive is what the job's     *)
(* record says, for any number of jobs, streams and pollers.               *)
(***************************************************************************)
EXTENDS JobClientsInv, JobManagerProofs

-----------------------------------------------------------------------------
(* The clients and the job manager. *)

\* A step of the clients' system is a step of the job manager's or leaves it
\* alone; and it moves the streams or the pollers, never both.
LEMMA ClientSteps ==
    ASSUME [ClientNext]_clientVars
    PROVE  /\ [Next]_vars
           /\ \/ StreamNext /\ UNCHANGED pollVars
              \/ \E p \in Pollers : Poll(p) /\ UNCHANGED <<vars, streamVars>>
              \/ UNCHANGED <<vars, streamVars, pollVars>>
<1>1. CASE StreamStep
  <2>1. StreamNext /\ UNCHANGED pollVars
    BY <1>1 DEF StreamStep
  <2>2. ASSUME NEW j \in Jobs, StreamLoop(j) PROVE Loop(j)
    BY <2>2 DEF StreamLoop, PublishToAll, FinishForAll, QuietLoop, Loop
  <2>3. ASSUME NEW s \in Streams, (\E j \in Jobs : Open(s, j)) \/ Reader(s) \/ Disconnect(s)
        PROVE  UNCHANGED vars
    BY <2>3 DEF Open, Reader, ReplayHistory, EndHistory, FollowLive, Finalise, Disconnect
  <2>4. QED
    BY <2>1, <2>2, <2>3 DEF StreamNext, Next
<1>2. ASSUME NEW p \in Pollers, PollStep(p)
      PROVE  Poll(p) /\ UNCHANGED <<vars, streamVars>>
  BY <1>2 DEF PollStep, Poll, ReadState, ReadEvents, ReadError, ReadResult
<1>3. CASE UNCHANGED clientVars
  BY <1>3 DEF clientVars
<1>4. QED
  BY <1>1, <1>2, <1>3 DEF ClientNext

\* Streams and polls only observe: with them the job manager still behaves as
\* JobManager specifies, so its theorems hold of every job a client watches.
THEOREM ClientsOnlyObserve == ClientSpec => Spec
<1>1. ClientInit => Init
  BY DEF ClientInit, StreamInit
<1>2. [ClientNext]_clientVars => [Next]_vars
  BY ClientSteps
<1>3. QED
  BY <1>1, <1>2, PTL DEF ClientSpec, Spec

\* The job manager's invariants, in the clients' system.
LEMMA JobsInvariant == ClientSpec => [](TypeOK /\ IInv /\ OutcomeInv)
<1>1. Init => OutcomeInv
  BY DEF Init, OutcomeInv, Terminal, Idle, At, Jobs, NoJob
<1>2. QED
  BY <1>1, OutcomeStep, Invariant, ClientsOnlyObserve, PTL DEF Spec

-----------------------------------------------------------------------------
(* How a job's record grows. *)

\* Beginnings and reports of a job compose.
LEMMA BeginsTransitive ==
    ASSUME NEW S, NEW r \in Seq(S), NEW s \in Seq(S), NEW t \in Seq(S),
           Begins(r, s), Begins(s, t)
    PROVE  Begins(r, t)
  BY DEF Begins

\* How a sequence begins is its subsequence of that length.
LEMMA BeginsIsSubSeq ==
    ASSUME NEW S, NEW s \in Seq(S), NEW t \in Seq(S), Begins(s, t)
    PROVE  s = SubSeq(t, 1, Len(s))
  BY DEF Begins

LEMMA OnwardTransitive ==
    ASSUME NEW r \in States, NEW s \in States, NEW t \in States, Onward(r, s), Onward(s, t)
    PROVE  Onward(r, t)
<1>1. Rank(r) \in Nat /\ Rank(s) \in Nat /\ Rank(t) \in Nat
  BY DEF Rank
<1>2. QED
  BY <1>1 DEF Onward

\* A step takes a job's state onward and appends to its events; a recorded
\* error or result stays, and a job that is done stays done.
LEMMA RecordSteps ==
    ASSUME TypeOK, IInv, OutcomeInv, [Next]_vars, NEW i \in Jobs
    PROVE  /\ Onward(state[i], state'[i])
           /\ Begins(events[i], events'[i])
           /\ error[i] # "none" => error'[i] = error[i]
           /\ result[i] => result'[i]
           /\ done[i] => done'[i]
<1> USE DEF IInv
<1>1. state[i] \in Terminal => state'[i] = state[i]
  BY StateSteps
<1>2. Rank(state[i]) <= Rank(state'[i])
  <2>1. ASSUME NEW j \in Jobs, StartIngest(j) \/ StartQuery(j) \/ AcquireLock(j)
        PROVE  Rank(state[i]) <= Rank(state'[i])
    <3>1. state[j] = "queued"
      BY SMTT(30), <2>1, RunsFacts DEF StartIngest, StartQuery, AcquireLock, CallbackOK
    <3>2. state' = state \/ state' = [state EXCEPT ![j] = "running"]
      BY <2>1 DEF StartIngest, StartQuery, AcquireLock, EnterRun
    <3>3. state'[i] = state[i] \/ (state[i] = "queued" /\ state'[i] = "running")
      BY <3>1, <3>2 DEF TypeOK
    <3>4. QED
      BY <3>3 DEF Rank
  <2>2. ASSUME NEW j \in Jobs, SetState(j) PROVE Rank(state[i]) <= Rank(state'[i])
    <3>1. EndState(j) \in Terminal
      BY DEF EndState, Terminal
    <3>2. state'[i] = state[i] \/ state'[i] \in Terminal
      BY <2>2, <3>1 DEF SetState, TypeOK
    <3>3. QED
      BY <3>2 DEF Rank, Terminal
  <2>3. CASE Submission
    <3>1. PICK j \in Jobs : j = submitted + 1 /\ state' = [state EXCEPT ![j] = "queued"]
      BY <2>3 DEF Submission, SubmitIngest, SubmitQuery, CreateJob
    <3>2. submitted \in Nat
      BY ConstantsAssumption DEF TypeOK, JobOrNone
    <3>3. state[j] = "absent"
      BY <3>1, <3>2 DEF RecordInv
    <3>4. state'[i] = state[i] \/ (state[i] = "absent" /\ state'[i] = "queued")
      BY <3>1, <3>3 DEF TypeOK
    <3>5. QED
      BY <3>4 DEF Rank
  <2>4. ASSUME NEW j \in Jobs,
               \/ Cancel(j) \/ Publish(j) \/ Resume(j) \/ SetResult(j) \/ RegisterDataset(j)
               \/ SetError(j) \/ Finish(j) \/ Dispatch(j) \/ Worker(j)
        PROVE  state' = state
    BY <2>4 DEF Cancel, Publish, Resume, SetResult, RegisterDataset, SetError, Finish, Dispatch,
       Worker, PassBoundary, StopAtBoundary, WorkFails, WorkReturns, EndWork, recordVars
  <2>5. state' = state => Rank(state[i]) <= Rank(state'[i])
    BY DEF Rank
  <2>6. CASE UNCHANGED vars
    BY <2>5, <2>6 DEF vars, recordVars
  <2>7. QED
    BY <2>1, <2>2, <2>3, <2>4, <2>5, <2>6 DEF Next, Loop
<1>3. Begins(events[i], events'[i])
  <2>1. ASSUME NEW j \in Jobs, Publish(j) PROVE Begins(events[i], events'[i])
    <3>1. Head(ready).stage \in Stages
      <4>1. PICK c \in Callbacks : c.op = "publish" /\ c = Head(ready)
        BY <2>1, RunsFacts DEF Publish
      <4>2. QED
        BY <4>1 DEF Callbacks
    <3>2. /\ events'[i] = events[i] \/ events'[i] = Append(events[i], Head(ready).stage)
          /\ events[i] \in Seq(Stages)
      BY <2>1 DEF Publish, TypeOK
    <3>3. QED
      BY <3>1, <3>2, AppendFacts DEF Begins
  <2>2. ASSUME NEW j \in Jobs,
               \/ Cancel(j) \/ StartIngest(j) \/ StartQuery(j) \/ AcquireLock(j) \/ Resume(j)
               \/ SetResult(j) \/ RegisterDataset(j) \/ SetState(j) \/ SetError(j) \/ Finish(j)
               \/ Dispatch(j) \/ Worker(j)
        PROVE  events' = events
    BY <2>2 DEF Cancel, StartIngest, StartQuery, AcquireLock, Resume, SetResult, RegisterDataset,
       SetState, SetError, Finish, Dispatch, Worker, PassBoundary, StopAtBoundary, WorkFails,
       WorkReturns, EndWork, recordVars
  <2>3. CASE Submission \/ UNCHANGED vars
    BY <2>3 DEF Submission, SubmitIngest, SubmitQuery, Begins, vars, recordVars, TypeOK
  <2>4. events[i] \in Seq(Stages)
    BY DEF TypeOK
  <2>5. events' = events => Begins(events[i], events'[i])
    BY <2>4 DEF Begins
  <2>6. QED
    BY <2>1, <2>2, <2>3, <2>5 DEF Next, Loop
<1>4. /\ error[i] # "none" => error'[i] = error[i]
      /\ result[i] => result'[i]
      /\ done[i] => done'[i]
  <2>1. ASSUME NEW j \in Jobs, SetResult(j) \/ Finish(j)
        PROVE  error' = error /\ (result[i] => result'[i]) /\ (done[i] => done'[i])
    BY <2>1 DEF SetResult, Finish, TypeOK
  <2>2. ASSUME NEW j \in Jobs, SetError(j)
        PROVE  /\ error[i] # "none" => error'[i] = error[i]
               /\ result' = result /\ done' = done
    <3>1. loop = At("error", j) /\ loop # At("finish", j) /\ loop.job = j
      BY <2>2 DEF SetError, At
    <3>2. ~done[j]
      BY <3>1 DEF LoopInv, Jobs, NoJob
    <3>3. error[j] = "none"
      BY <3>1, <3>2 DEF OutcomeInv
    <3>4. QED
      BY <2>2, <3>3 DEF SetError, TypeOK
  <2>3. ASSUME NEW j \in Jobs,
               \/ Cancel(j) \/ StartIngest(j) \/ StartQuery(j) \/ AcquireLock(j) \/ Publish(j)
               \/ Resume(j) \/ RegisterDataset(j) \/ SetState(j) \/ Dispatch(j) \/ Worker(j)
        PROVE  error' = error /\ result' = result /\ done' = done
    BY <2>3 DEF Cancel, StartIngest, StartQuery, AcquireLock, Publish, Resume, RegisterDataset,
       SetState, Dispatch, Worker, PassBoundary, StopAtBoundary, WorkFails, WorkReturns, EndWork,
       recordVars
  <2>4. CASE Submission \/ UNCHANGED vars
    BY <2>4 DEF Submission, SubmitIngest, SubmitQuery, vars, recordVars
  <2>5. QED
    BY <2>1, <2>2, <2>3, <2>4 DEF Next, Loop
<1>5. QED
  BY <1>1, <1>2, <1>3, <1>4 DEF Onward

-----------------------------------------------------------------------------
(* Pollers. *)

\* The empty view is a view, of no job.
LEMMA NoViewType == NoView \in Views /\ NoView.job = NoJob
  BY ConstantsAssumption DEF NoView, Views, JobOrNone, NoJob, States, Outcomes

\* What a view reports stays true while the job goes on.
LEMMA StillTrueSteps ==
    ASSUME TypeOK, TypeOK', IInv, OutcomeInv, [Next]_vars, NEW v \in Views, StillTrue(v)
    PROVE  StillTrue(v)'
<1> SUFFICES ASSUME v.job # NoJob
             PROVE  /\ Onward(v.state, state'[v.job])
                    /\ Begins(v.events, events'[v.job])
                    /\ v.error # "none" => error'[v.job] = v.error
                    /\ v.result => result'[v.job]
  BY DEF StillTrue
<1>1. v.job \in Jobs /\ v.state \in States /\ v.events \in Seq(Stages)
  BY DEF Views, Jobs, JobOrNone, NoJob
<1>2. /\ state[v.job] \in States /\ state'[v.job] \in States
      /\ events[v.job] \in Seq(Stages) /\ events'[v.job] \in Seq(Stages)
  BY <1>1 DEF TypeOK
<1>3. /\ Onward(v.state, state[v.job]) /\ Begins(v.events, events[v.job])
      /\ v.error # "none" => error[v.job] = v.error
      /\ v.result => result[v.job]
  BY DEF StillTrue
<1>4. /\ Onward(state[v.job], state'[v.job]) /\ Begins(events[v.job], events'[v.job])
      /\ error[v.job] # "none" => error'[v.job] = error[v.job]
      /\ result[v.job] => result'[v.job]
  BY <1>1, RecordSteps
<1>5. Onward(v.state, state'[v.job])
  BY <1>1, <1>2, <1>3, <1>4, OnwardTransitive
<1>6. Begins(v.events, events'[v.job])
  BY <1>1, <1>2, <1>3, <1>4, BeginsTransitive
<1>7. QED
  BY <1>3, <1>4, <1>5, <1>6

\* The job layer's steps leave what pollers hold true.
LEMMA PollRecord ==
    ASSUME TypeOK, TypeOK', IInv, OutcomeInv, [Next]_vars, PollInv, UNCHANGED pollVars
    PROVE  PollInv'
<1>1. PollTypeOK'
  BY DEF PollInv, PollTypeOK, pollVars
<1>2. ASSUME NEW p \in Pollers
      PROVE  /\ StillTrue(view[p])' /\ StillTrue(answer[p].latest)'
             /\ Precedes(answer[p].before, answer[p].latest)'
             /\ (reading[p] # "nothing" => Overtakes(p))'
  <2>1. view[p] \in Views /\ answer[p].latest \in Views
    BY DEF PollInv, PollTypeOK
  <2>2. StillTrue(view[p]) /\ StillTrue(answer[p].latest)
    BY DEF PollInv
  <2>3. /\ \A v \in Views : StillTrue(v) => StillTrue(v)'
        /\ view' = view /\ answer' = answer /\ reading' = reading
    BY StillTrueSteps DEF pollVars
  <2>4. StillTrue(view[p])' /\ StillTrue(answer[p].latest)'
    BY <2>1, <2>2, <2>3 DEF StillTrue
  <2>5. QED
    BY <2>3, <2>4 DEF PollInv, Precedes, Overtakes
<1>3. QED
  BY <1>1, <1>2 DEF PollInv

\* What poller p's thread reads is true of the job, and not behind what p was
\* last answered; the other pollers hold what they held.
LEMMA PollMoves ==
    ASSUME TypeOK, PollInv, NEW p \in Pollers, Poll(p), UNCHANGED vars
    PROVE  PollInv'
<1> DEFINE Ok(q) == /\ StillTrue(view[q]) /\ StillTrue(answer[q].latest)
                    /\ Precedes(answer[q].before, answer[q].latest)
                    /\ (reading[q] # "nothing" => Overtakes(q))
<1>1. /\ UNCHANGED <<state, events, error, result>>
      /\ \A v \in Views : StillTrue(v) => StillTrue(v)'
  BY DEF vars, recordVars, StillTrue
<1>2. /\ view \in [Pollers -> Views]
      /\ answer \in [Pollers -> [before : Views, latest : Views]]
      /\ reading \in [Pollers -> {"nothing", "events", "error", "result"}]
      /\ \A q \in Pollers : Ok(q)
  BY DEF PollInv, PollTypeOK
<1>3. ASSUME NEW v \in Views, NEW a \in [before : Views, latest : Views],
             NEW r \in {"nothing", "events", "error", "result"},
             view' = [view EXCEPT ![p] = v], answer' = [answer EXCEPT ![p] = a],
             reading' = [reading EXCEPT ![p] = r],
             Ok(p)'
      PROVE  PollInv'
  <2>1. PollTypeOK'
    BY <1>2, <1>3 DEF PollTypeOK
  <2>2. ASSUME NEW q \in Pollers, q # p PROVE Ok(q)'
    <3>1. view'[q] = view[q] /\ answer'[q] = answer[q] /\ reading'[q] = reading[q]
      BY <1>2, <1>3, <2>2
    <3>2. Ok(q) /\ view[q] \in Views /\ answer[q].latest \in Views
      BY <1>2
    <3>3. StillTrue(view[q])' /\ StillTrue(answer[q].latest)'
      BY <1>1, <3>1, <3>2 DEF StillTrue
    <3>4. QED
      BY <3>1, <3>2, <3>3 DEF Precedes, Overtakes
  <2>3. QED
    BY <1>3, <2>1, <2>2 DEF PollInv
<1>4. answer[p].latest \in Views /\ view[p] \in Views /\ Ok(p)
  BY <1>2
<1>5. /\ \A j \in Jobs : j \in JobOrNone /\ j # NoJob
      /\ state \in [Jobs -> States] /\ events \in [Jobs -> Seq(Stages)]
      /\ error \in [Jobs -> Outcomes] /\ result \in [Jobs -> BOOLEAN]
  BY DEF TypeOK, Jobs, JobOrNone, NoJob
<1>6. ASSUME NEW j \in Jobs, ReadState(p, j) PROVE PollInv'
  <2> DEFINE v == [NoView EXCEPT !.job = j, !.state = state[j]]
  <2>1. /\ v.job = j /\ v.state = state[j]
        /\ v.events = <<>> /\ v.error = "none" /\ v.result = FALSE
    BY DEF NoView
  <2>2. v \in Views
    BY <1>5, NoViewType DEF Views
  <2>3. view' = [view EXCEPT ![p] = v] /\ reading' = [reading EXCEPT ![p] = "events"]
        /\ answer' = answer /\ answer[p].latest.job \in {NoJob, j}
    BY <1>6 DEF ReadState
  <2>4. view'[p] = v /\ reading'[p] = "events" /\ answer'[p] = answer[p]
        /\ answer' = [answer EXCEPT ![p] = answer[p]]
    BY <1>2, <2>3
  <2>5. StillTrue(v)
    BY <1>5, <2>1 DEF StillTrue, Onward, Begins, Rank
  <2>6. answer[p].latest.job # NoJob => Onward(answer[p].latest.state, v.state)
    BY <1>4, <2>1, <2>3 DEF StillTrue
  <2>7. Ok(p)'
    <3>1. StillTrue(view[p])' /\ StillTrue(answer[p].latest)'
      BY <1>1, <1>4, <2>4, <2>5 DEF StillTrue
    <3>2. Overtakes(p)'
      BY <2>1, <2>3, <2>4, <2>6 DEF Overtakes
    <3>3. QED
      BY <1>4, <2>4, <3>1, <3>2 DEF Precedes
  <2>8. QED
    BY <1>2, <1>3, <2>2, <2>3, <2>4, <2>7
<1>7. CASE ReadEvents(p)
  <2> DEFINE v == [view[p] EXCEPT !.events = events[view[p].job]]
  <2>1. reading[p] = "events" /\ Overtakes(p) /\ view[p].job \in Jobs
    BY <1>4, <1>7 DEF ReadEvents, Overtakes
  <2>2. v \in Views /\ v.events = events[v.job] /\ v.job = view[p].job
        /\ v.state = view[p].state /\ v.error = view[p].error /\ v.result = view[p].result
    BY <1>4, <1>5, <2>1 DEF Views
  <2>3. view' = [view EXCEPT ![p] = v] /\ reading' = [reading EXCEPT ![p] = "error"]
        /\ answer' = answer
    BY <1>7 DEF ReadEvents
  <2>4. view'[p] = v /\ reading'[p] = "error" /\ answer'[p] = answer[p]
        /\ answer' = [answer EXCEPT ![p] = answer[p]]
    BY <1>2, <2>3
  <2>5. Begins(v.events, v.events)
    BY <2>2 DEF Begins, Views
  <2>6. StillTrue(v)
    BY <1>4, <2>2, <2>5 DEF StillTrue
  <2>7. answer[p].latest.job # NoJob => Begins(answer[p].latest.events, v.events)
    BY <1>4, <2>1, <2>2 DEF StillTrue, Overtakes
  <2>8. Ok(p)'
    <3>1. StillTrue(view[p])' /\ StillTrue(answer[p].latest)'
      BY <1>1, <1>4, <2>4, <2>6 DEF StillTrue
    <3>2. Overtakes(p)'
      BY <2>1, <2>2, <2>4, <2>7 DEF Overtakes
    <3>3. QED
      BY <1>4, <2>4, <3>1, <3>2 DEF Precedes
  <2>9. QED
    BY <1>2, <1>3, <2>2, <2>3, <2>4, <2>8
<1>8. CASE ReadError(p)
  <2> DEFINE v == [view[p] EXCEPT !.error = error[view[p].job]]
  <2>1. reading[p] = "error" /\ Overtakes(p) /\ view[p].job \in Jobs
    BY <1>4, <1>8 DEF ReadError, Overtakes
  <2>2. v \in Views /\ v.error = error[v.job] /\ v.job = view[p].job
        /\ v.state = view[p].state /\ v.events = view[p].events /\ v.result = view[p].result
    BY <1>4, <1>5, <2>1 DEF Views
  <2>3. view' = [view EXCEPT ![p] = v] /\ reading' = [reading EXCEPT ![p] = "result"]
        /\ answer' = answer
    BY <1>8 DEF ReadError
  <2>4. view'[p] = v /\ reading'[p] = "result" /\ answer'[p] = answer[p]
        /\ answer' = [answer EXCEPT ![p] = answer[p]]
    BY <1>2, <2>3
  <2>5. StillTrue(v)
    BY <1>4, <2>2 DEF StillTrue
  <2>6. answer[p].latest.job # NoJob /\ answer[p].latest.error # "none" =>
            v.error = answer[p].latest.error
    BY <1>4, <2>1, <2>2 DEF StillTrue, Overtakes
  <2>7. Ok(p)'
    <3>1. StillTrue(view[p])' /\ StillTrue(answer[p].latest)'
      BY <1>1, <1>4, <2>4, <2>5 DEF StillTrue
    <3>2. Overtakes(p)'
      BY <2>1, <2>2, <2>4, <2>6 DEF Overtakes
    <3>3. QED
      BY <1>4, <2>4, <3>1, <3>2 DEF Precedes
  <2>8. QED
    BY <1>2, <1>3, <2>2, <2>3, <2>4, <2>7
<1>9. CASE ReadResult(p)
  <2> DEFINE v == [view[p] EXCEPT !.result = result[view[p].job]]
             a == [before |-> answer[p].latest, latest |-> v]
  <2>1. reading[p] = "result" /\ Overtakes(p) /\ view[p].job \in Jobs
    BY <1>4, <1>9 DEF ReadResult, Overtakes
  <2>2. v \in Views /\ v.result = result[v.job] /\ v.job = view[p].job
        /\ v.state = view[p].state /\ v.events = view[p].events /\ v.error = view[p].error
    BY <1>4, <1>5, <2>1 DEF Views
  <2>3. NoView \in Views /\ NoView.job = NoJob
    BY NoViewType
  <2>4. answer' = [answer EXCEPT ![p] = a] /\ view' = [view EXCEPT ![p] = NoView]
        /\ reading' = [reading EXCEPT ![p] = "nothing"]
    BY <1>9 DEF ReadResult
  <2>5. a \in [before : Views, latest : Views] /\ a.before = answer[p].latest /\ a.latest = v
    BY <1>4, <2>2
  <2>6. view'[p] = NoView /\ reading'[p] = "nothing" /\ answer'[p] = a
    BY <1>2, <2>4
  <2>7. StillTrue(v)
    BY <1>4, <2>2 DEF StillTrue
  <2>8. Precedes(answer[p].latest, v)
    BY <1>4, <2>1, <2>2 DEF StillTrue, Overtakes, Precedes
  <2>9. Ok(p)'
    <3>1. StillTrue(view[p])' /\ StillTrue(answer[p].latest)'
      BY <1>1, <2>3, <2>5, <2>6, <2>7 DEF StillTrue
    <3>2. QED
      BY <2>5, <2>6, <2>8, <3>1 DEF Precedes
  <2>10. QED
    BY <1>3, <2>3, <2>4, <2>5, <2>9
<1>10. QED
  BY <1>6, <1>7, <1>8, <1>9 DEF Poll

\* In every reachable state what pollers hold is still true of their jobs.
THEOREM PollInvariant == ClientSpec => []PollInv
<1>1. ClientInit => PollInv
  <2> SUFFICES ASSUME ClientInit PROVE PollInv
    OBVIOUS
  <2>1. NoView \in Views /\ NoView.job = NoJob
    BY NoViewType
  <2>2. QED
    BY <2>1 DEF ClientInit, PollInit, PollInv, PollTypeOK, StillTrue, Precedes
<1>2. TypeOK /\ TypeOK' /\ IInv /\ OutcomeInv /\ PollInv /\ [ClientNext]_clientVars => PollInv'
  <2> SUFFICES ASSUME TypeOK, TypeOK', IInv, OutcomeInv, PollInv, [ClientNext]_clientVars
               PROVE  PollInv'
    OBVIOUS
  <2>1. CASE UNCHANGED pollVars
    BY <2>1, PollRecord, ClientSteps
  <2>2. ASSUME NEW p \in Pollers, Poll(p), UNCHANGED vars PROVE PollInv'
    BY <2>2, PollMoves
  <2>3. QED
    BY <2>1, <2>2, ClientSteps
<1>3. QED
  BY <1>1, <1>2, JobsInvariant, PTL DEF ClientSpec

\* Successive polls of one client never go back, wherever the loop is in the
\* middle of ending the job while the handler's thread reads (_Job.view).
THEOREM ForwardPolls == ClientSpec => []PollsMoveForward
<1>1. PollInv => PollsMoveForward
  <2> SUFFICES ASSUME PollInv, NEW p \in Pollers, answer[p].before.job # NoJob
               PROVE  LET b == answer[p].before v == answer[p].latest IN
                        /\ Rank(b.state) <= Rank(v.state)
                        /\ b.state \in Terminal => v.state = b.state
                        /\ b.events = SubSeq(v.events, 1, Len(b.events))
                        /\ b.error # "none" => v.error = b.error
                        /\ b.result => v.result
    BY DEF PollsMoveForward
  <2>1. Precedes(answer[p].before, answer[p].latest)
    BY DEF PollInv
  <2>2. answer[p].before.events \in Seq(Stages) /\ answer[p].latest.events \in Seq(Stages)
    BY DEF PollInv, PollTypeOK, Views
  <2>3. answer[p].before.events = SubSeq(answer[p].latest.events, 1, Len(answer[p].before.events))
    BY <2>1, <2>2, BeginsIsSubSeq DEF Precedes
  <2>4. QED
    BY <2>1, <2>3 DEF Precedes, Onward
<1>2. QED
  BY <1>1, PollInvariant, PTL

-----------------------------------------------------------------------------
(* Queues and histories. *)

\* A new event appended to both: the queue still follows the events.
LEMMA FollowsPublish ==
    ASSUME NEW q \in Seq(Ticks), NEW e \in Seq(Stages), NEW c \in Nat, NEW x \in Stages,
           c <= Len(e), Follows(q, e, c, FALSE)
    PROVE  Follows(Append(q, Tick(Len(e) + 1, x)), Append(e, x), c, FALSE)
<1> DEFINE tick == Tick(Len(e) + 1, x)
<1>1. tick \in Ticks
  BY DEF Tick, Ticks, Positions
<1>2. /\ Len(Append(q, tick)) = Len(q) + 1 /\ Append(q, tick)[Len(q) + 1] = tick
      /\ \A n \in 1..Len(q) : Append(q, tick)[n] = q[n]
      /\ Len(q) \in Nat
  BY <1>1, AppendFacts
<1>3. /\ Len(Append(e, x)) = Len(e) + 1 /\ Append(e, x)[Len(e) + 1] = x
      /\ \A n \in 1..Len(e) : Append(e, x)[n] = e[n]
      /\ Len(e) \in Nat
  BY AppendFacts
<1>4. /\ Len(q) = Len(e) - c
      /\ \A n \in 1..Len(q) : c + n \in 1..Len(e) /\ q[n] = Tick(c + n, e[c + n])
  BY <1>2, <1>3 DEF Follows
<1>5. ASSUME NEW n \in 1..(Len(q) + 1)
      PROVE  /\ c + n <= Len(e) + 1
             /\ Append(q, tick)[n] = Tick(c + n, Append(e, x)[c + n])
  <2>1. CASE n \in 1..Len(q)
    BY <1>2, <1>3, <1>4, <2>1
  <2>2. CASE n = Len(q) + 1
    BY <1>2, <1>3, <1>4, <2>2
  <2>3. QED
    BY <1>2, <2>1, <2>2
<1>6. Len(Append(q, tick)) = Len(Append(e, x)) - c + (IF FALSE THEN 1 ELSE 0)
  BY <1>2, <1>3, <1>4
<1>7. ASSUME NEW n \in 1..Len(Append(q, tick))
      PROVE  Append(q, tick)[n] = IF c + n <= Len(Append(e, x))
                                  THEN Tick(c + n, Append(e, x)[c + n]) ELSE Sentinel
  <2>1. n \in 1..(Len(q) + 1) /\ Len(Append(e, x)) = Len(e) + 1
    BY <1>2, <1>3
  <2>2. QED
    BY <1>5, <2>1
<1>8. QED
  BY <1>6, <1>7 DEF Follows

\* The sentinel appended when the job is done.
LEMMA FollowsFinish ==
    ASSUME NEW q \in Seq(Ticks), NEW e \in Seq(Stages), NEW c \in Nat,
           c <= Len(e), Follows(q, e, c, FALSE)
    PROVE  Follows(Append(q, Sentinel), e, c, TRUE)
<1>1. Sentinel \in Ticks
  BY DEF Sentinel, Tick, Ticks, Positions
<1>2. /\ Len(Append(q, Sentinel)) = Len(q) + 1 /\ Append(q, Sentinel)[Len(q) + 1] = Sentinel
      /\ \A n \in 1..Len(q) : Append(q, Sentinel)[n] = q[n]
      /\ Len(q) \in Nat /\ Len(e) \in Nat
  BY <1>1, AppendFacts
<1>3. /\ Len(q) = Len(e) - c
      /\ \A n \in 1..Len(q) : c + n <= Len(e) /\ q[n] = Tick(c + n, e[c + n])
  BY <1>2 DEF Follows
<1>4. ASSUME NEW n \in 1..(Len(q) + 1)
      PROVE  Append(q, Sentinel)[n] = IF c + n <= Len(e) THEN Tick(c + n, e[c + n]) ELSE Sentinel
  <2>1. CASE n \in 1..Len(q)
    BY <1>2, <1>3, <2>1
  <2>2. CASE n = Len(q) + 1
    BY <1>2, <1>3, <2>2
  <2>3. QED
    BY <1>2, <2>1, <2>2
<1>5. QED
  BY <1>2, <1>3, <1>4 DEF Follows

\* The head of a queue that follows the events is the next event or, when all
\* are covered, the sentinel of a job that is done.
LEMMA FollowsHead ==
    ASSUME NEW q \in Seq(Ticks), NEW e \in Seq(Stages), NEW c \in Nat, NEW d \in BOOLEAN,
           c <= Len(e), Follows(q, e, c, d), q # <<>>
    PROVE  \/ /\ c + 1 <= Len(e) /\ Head(q) = Tick(c + 1, e[c + 1])
              /\ Follows(Tail(q), e, c + 1, d)
           \/ c = Len(e) /\ d /\ Head(q) = Sentinel
<1>1. /\ Len(q) \in Nat \ {0} /\ Head(q) = q[1] /\ Len(Tail(q)) = Len(q) - 1
      /\ \A n \in 1..Len(Tail(q)) : n + 1 \in 1..Len(q) /\ Tail(q)[n] = q[n + 1]
      /\ Len(e) \in Nat
  BY TailFacts
<1>2. /\ Len(q) = Len(e) - c + (IF d THEN 1 ELSE 0)
      /\ \A n \in 1..Len(q) :
            q[n] = IF c + n <= Len(e) THEN Tick(c + n, e[c + n]) ELSE Sentinel
  BY DEF Follows
<1>3. Head(q) = IF c + 1 <= Len(e) THEN Tick(c + 1, e[c + 1]) ELSE Sentinel
  BY <1>1, <1>2
<1>4. CASE c + 1 <= Len(e)
  <2>1. Len(Tail(q)) = Len(e) - (c + 1) + (IF d THEN 1 ELSE 0)
    BY <1>1, <1>2
  <2>2. ASSUME NEW n \in 1..Len(Tail(q))
        PROVE  Tail(q)[n] = IF (c + 1) + n <= Len(e) THEN Tick((c + 1) + n, e[(c + 1) + n])
                                                     ELSE Sentinel
    <3>1. n + 1 \in 1..Len(q) /\ Tail(q)[n] = q[n + 1] /\ c + (n + 1) = (c + 1) + n
      BY <1>1
    <3>2. QED
      BY <1>2, <3>1
  <2>3. QED
    BY <1>3, <1>4, <2>1, <2>2 DEF Follows
<1>5. CASE ~(c + 1 <= Len(e))
  BY <1>1, <1>2, <1>3, <1>5
<1>6. QED
  BY <1>4, <1>5

\* A history to replay does not change when events are added.
LEMMA ReplaysGrow ==
    ASSUME NEW h \in Seq(Stages), NEW e \in Seq(Stages), NEW k \in Nat, NEW x \in Stages,
           k + Len(h) <= Len(e), Replays(h, e, k)
    PROVE  Replays(h, Append(e, x), k)
<1>1. Len(h) \in Nat /\ Len(e) \in Nat /\ \A n \in 1..Len(e) : Append(e, x)[n] = e[n]
  BY AppendFacts
<1>2. \A n \in 1..Len(h) : k + n \in 1..Len(e)
  BY <1>1
<1>3. QED
  BY <1>1, <1>2 DEF Replays

\* The head of a history to replay is the next event.
LEMMA ReplaysHead ==
    ASSUME NEW h \in Seq(Stages), NEW e, NEW k \in Nat, Replays(h, e, k), h # <<>>
    PROVE  Head(h) = e[k + 1] /\ Replays(Tail(h), e, k + 1)
<1>1. /\ Len(h) \in Nat \ {0} /\ Head(h) = h[1]
      /\ \A n \in 1..Len(Tail(h)) : n + 1 \in 1..Len(h) /\ Tail(h)[n] = h[n + 1]
  BY TailFacts
<1>2. Head(h) = e[k + 1]
  BY <1>1 DEF Replays
<1>3. ASSUME NEW n \in 1..Len(Tail(h)) PROVE Tail(h)[n] = e[(k + 1) + n]
  <2>1. Tail(h)[n] = h[n + 1] /\ n + 1 \in 1..Len(h) /\ k + (n + 1) = (k + 1) + n
    BY <1>1
  <2>2. QED
    BY <2>1 DEF Replays
<1>4. QED
  BY <1>2, <1>3 DEF Replays

\* The next event appended to how the events begin.
LEMMA BeginsNext ==
    ASSUME NEW s \in Seq(Stages), NEW e \in Seq(Stages), Begins(s, e), Len(s) + 1 <= Len(e)
    PROVE  /\ Append(s, e[Len(s) + 1]) \in Seq(Stages)
           /\ Len(Append(s, e[Len(s) + 1])) = Len(s) + 1
           /\ Begins(Append(s, e[Len(s) + 1]), e)
<1> DEFINE x == e[Len(s) + 1]
<1>1. Len(s) \in Nat /\ Len(e) \in Nat /\ x \in Stages
  OBVIOUS
<1>2. /\ Append(s, x) \in Seq(Stages) /\ Len(Append(s, x)) = Len(s) + 1
      /\ Append(s, x)[Len(s) + 1] = x
      /\ \A n \in 1..Len(s) : Append(s, x)[n] = s[n]
  BY <1>1, AppendFacts
<1>3. ASSUME NEW n \in 1..(Len(s) + 1) PROVE Append(s, x)[n] = e[n]
  <2>1. n \in 1..Len(s) \/ n = Len(s) + 1
    BY <1>1
  <2>2. QED
    BY <1>2, <2>1 DEF Begins
<1>4. QED
  BY <1>2, <1>3 DEF Begins

-----------------------------------------------------------------------------
(* Streams. *)

\* Sums of naturals are naturals.
LEMMA SumType == \A a, b \in Nat : a + b \in Nat
  OBVIOUS

\* One element moved from the second of two parts to the first.
LEMMA MovedOne ==
    ASSUME NEW a \in Nat, NEW b \in Nat \ {0}
    PROVE  (a + 1) + (b - 1) = a + b
  OBVIOUS

\* What has yet to be moved still fits.
LEMMA NextFits ==
    ASSUME NEW a \in Nat, NEW b \in Nat \ {0}, NEW m \in Nat, a + b <= m
    PROVE  a + 1 <= m
  OBVIOUS

\* The types of what a stream holds.
LEMMA StreamFacts ==
    ASSUME StreamTypes, NEW s \in Streams
    PROVE  /\ sent[s] \in Seq(Stages) /\ history[s] \in Seq(Stages) /\ queue[s] \in Seq(Ticks)
           /\ Len(sent[s]) \in Nat /\ Covered(s) \in Nat
           /\ Covered(s) = Len(sent[s]) + Len(history[s])
           /\ phase[s] = "unopened" <=> source[s] = NoJob
<1>1. /\ sent[s] \in Seq(Stages) /\ history[s] \in Seq(Stages) /\ queue[s] \in Seq(Ticks)
      /\ phase[s] = "unopened" <=> source[s] = NoJob
  BY DEF StreamTypes, StreamTypeOK
<1>2. Len(sent[s]) \in Nat /\ Len(history[s]) \in Nat
  BY <1>1
<1>3. QED
  BY <1>1, <1>2, SumType DEF Covered

\* A reader whose job's history does not change keeps its invariant while its
\* own state does not.
LEMMA ReaderFrame ==
    ASSUME NEW q \in Streams, NEW j, ReaderInv(q, j), events'[j] = events[j], done'[j] = done[j],
           queue'[q] = queue[q], history'[q] = history[q], last'[q] = last[q],
           doneAlready'[q] = doneAlready[q], sent'[q] = sent[q]
    PROVE  ReaderInv(q, j)'
<1>1. Covered(q)' = Covered(q)
  BY DEF Covered
<1>2. QED
  BY <1>1 DEF ReaderInv

\* A step that leaves stream q and its job's history alone keeps what the
\* invariant says of it.
LEMMA StreamFrame ==
    ASSUME NEW q \in Streams, StreamOK(q),
           phase[q] # "unopened" =>
               events'[source[q]] = events[source[q]] /\ done'[source[q]] = done[source[q]],
           queue'[q] = queue[q], source'[q] = source[q], phase'[q] = phase[q],
           history'[q] = history[q], last'[q] = last[q], doneAlready'[q] = doneAlready[q],
           sent'[q] = sent[q], final'[q] = final[q],
           phase[q] = "closed" => state'[source[q]] = state[source[q]]
    PROVE  StreamOK(q)'
<1>1. phase[q] \in {"history", "live"} => ReaderInv(q, source[q])
  BY DEF StreamOK
<1>2. phase[q] \in {"history", "live"} => ReaderInv(q, source[q])'
  BY <1>1, ReaderFrame
<1>3. QED
  BY <1>2 DEF StreamOK

\* The steps that add no event to a job and do not finish one.
LEMMA QuietSteps ==
    ASSUME TypeOK, IInv, [Next]_vars, StreamInv, UNCHANGED <<events, done>>, UNCHANGED streamVars
    PROVE  StreamInv'
<1>1. StreamTypes' /\ OnlyReadersSubscribed'
  BY DEF StreamInv, StreamTypes, StreamTypeOK, OnlyReadersSubscribed, streamVars
<1>2. ASSUME NEW q \in Streams PROVE StreamOK(q)'
  <2>1. StreamOK(q) /\ source[q] \in JobOrNone /\ (phase[q] = "unopened" <=> source[q] = NoJob)
    BY DEF StreamInv, StreamTypes, StreamTypeOK
  <2>2. phase[q] = "closed" => state'[source[q]] = state[source[q]]
    <3>1. SUFFICES ASSUME phase[q] = "closed" PROVE state'[source[q]] = state[source[q]]
      OBVIOUS
    <3>2. source[q] \in Jobs /\ done[source[q]]
      BY <2>1, <3>1 DEF StreamOK, Jobs, JobOrNone, NoJob
    <3>3. state[source[q]] \in Terminal
      BY <3>2 DEF IInv, RecordInv
    <3>4. QED
      BY <3>2, <3>3, StateSteps
  <2>3. QED
    BY <2>1, <2>2, StreamFrame DEF streamVars
<1>3. QED
  BY <1>1, <1>2 DEF StreamInv

\* A stream that reads follows an existing job, and is subscribed to it alone.
LEMMA ReaderFacts ==
    ASSUME StreamInv, NEW s \in Streams
    PROVE  /\ phase[s] # "unopened" => source[s] \in Jobs
           /\ \A j \in Jobs :
                 s \in subscribers[j] <=>
                     source[s] = j /\ phase[s] \in {"history", "live", "leaving"}
  BY DEF StreamInv, StreamTypes, StreamTypeOK, OnlyReadersSubscribed, Jobs, JobOrNone, NoJob

\* A tick for job j reaches exactly the queues of its subscribers.
LEMMA BroadcastTypes ==
    ASSUME StreamInv, NEW j \in Jobs, NEW tick \in Ticks, Broadcast(j, tick)
    PROVE  /\ StreamTypes' /\ OnlyReadersSubscribed'
           /\ UNCHANGED <<source, phase, history, last, doneAlready, sent, final>>
           /\ \A s \in Streams :
                 queue'[s] = IF source[s] = j /\ phase[s] \in {"history", "live", "leaving"}
                             THEN Append(queue[s], tick) ELSE queue[s]
<1>1. \A s \in Streams : queue[s] \in Seq(Ticks) /\ Append(queue[s], tick) \in Seq(Ticks)
  BY AppendFacts DEF StreamInv, StreamTypes, StreamTypeOK
<1>2. queue' \in [Streams -> Seq(Ticks)]
  BY <1>1 DEF Broadcast
<1>3. UNCHANGED <<subscribers, source, phase, history, last, doneAlready, sent, final>>
  BY DEF Broadcast
<1>4. StreamTypes' /\ OnlyReadersSubscribed'
  BY <1>2, <1>3 DEF StreamInv, StreamTypes, StreamTypeOK, OnlyReadersSubscribed
<1>5. \A s \in Streams :
          s \in subscribers[j] <=> source[s] = j /\ phase[s] \in {"history", "live", "leaving"}
  BY ReaderFacts
<1>6. QED
  BY <1>3, <1>4, <1>5 DEF Broadcast

\* A published event becomes the last tick of every reader's queue.
LEMMA PublishKept ==
    ASSUME TypeOK, IInv, StreamInv, NEW j \in Jobs, PublishToAll(j)
    PROVE  StreamInv'
<1> DEFINE stage == Head(ready).stage
           tick == Tick(Len(events[j]) + 1, stage)
<1>1. stage \in Stages /\ state[j] = "running"
  <2>1. PICK c \in Callbacks : c.op = "publish" /\ c.job = j /\ CallbackOK(c) /\ c = Head(ready)
    BY RunsFacts DEF PublishToAll, Publish, IInv
  <2>2. QED
    BY <2>1 DEF Callbacks, CallbackOK
<1>2. /\ events[j] \in Seq(Stages) /\ Len(events[j]) \in Nat
      /\ events' = [events EXCEPT ![j] = Append(@, stage)]
      /\ events'[j] = Append(events[j], stage)
      /\ Len(events'[j]) = Len(events[j]) + 1 /\ events'[j][Len(events[j]) + 1] = stage
      /\ \A n \in 1..Len(events[j]) : events'[j][n] = events[j][n]
      /\ UNCHANGED <<state, done>>
  <2>1. events[j] \in Seq(Stages) /\ events' = [events EXCEPT ![j] = Append(@, stage)]
        /\ events'[j] = Append(events[j], stage) /\ UNCHANGED <<state, done>>
    BY DEF PublishToAll, Publish, TypeOK
  <2>2. QED
    BY <1>1, <2>1, AppendFacts
<1>3. done[j] = FALSE
  BY <1>1 DEF IInv, RecordInv, Terminal, TypeOK
<1>4. tick \in Ticks /\ tick.seq = Len(events[j]) + 1 /\ tick.stage = stage
  BY <1>1, <1>2 DEF Tick, Ticks, Positions
<1>5. /\ StreamTypes' /\ OnlyReadersSubscribed'
      /\ UNCHANGED <<source, phase, history, last, doneAlready, sent, final>>
      /\ \A s \in Streams :
            queue'[s] = IF source[s] = j /\ phase[s] \in {"history", "live", "leaving"}
                        THEN Append(queue[s], tick) ELSE queue[s]
  BY <1>4, BroadcastTypes DEF PublishToAll
<1>6. ASSUME NEW s \in Streams PROVE StreamOK(s)'
  <2>1. /\ StreamOK(s) /\ (phase[s] = "unopened" <=> source[s] = NoJob)
        /\ sent[s] \in Seq(Stages) /\ history[s] \in Seq(Stages) /\ queue[s] \in Seq(Ticks)
        /\ Len(sent[s]) \in Nat /\ Covered(s) \in Nat
        /\ Covered(s) = Len(sent[s]) + Len(history[s])
    BY StreamFacts DEF StreamInv
  <2>2. CASE source[s] # j
    <3>1. events'[source[s]] = events[source[s]] /\ queue'[s] = queue[s]
      BY <1>2, <1>5, <2>2 DEF TypeOK
    <3>2. QED
      BY <1>2, <1>5, <2>1, <3>1, StreamFrame
  <2>3. CASE source[s] = j
    <3>1. phase[s] # "unopened" /\ phase[s] # "closed"
      BY <1>3, <2>1, <2>3 DEF StreamOK, Jobs, NoJob
    <3>2. Begins(sent[s], events[j])'
      BY <1>2, <1>5, <2>1, <2>3, <3>1 DEF StreamOK, Begins
    <3>3. ASSUME phase[s] \in {"history", "live"} PROVE ReaderInv(s, j)'
      <4>1. ReaderInv(s, j)
        BY <2>1, <2>3, <3>3 DEF StreamOK
      <4>2. ~doneAlready[s] /\ Follows(queue[s], events[j], Covered(s), FALSE)
        BY <1>3, <4>1 DEF ReaderInv
      <4>3. Follows(queue'[s], events'[j], Covered(s), done'[j])
        <5>1. queue'[s] = Append(queue[s], tick) /\ done'[j] = FALSE
          BY <1>2, <1>3, <1>5, <2>3, <3>3 DEF TypeOK
        <5>2. Covered(s) <= Len(events[j])
          BY <4>1 DEF ReaderInv
        <5>3. Follows(Append(queue[s], tick), Append(events[j], stage), Covered(s), FALSE)
          BY <1>1, <1>2, <2>1, <4>2, <5>2, FollowsPublish
        <5>4. QED
          BY <1>2, <5>1, <5>3
      <4>4. Replays(history[s], events'[j], Len(sent[s]))
        <5>1. Replays(history[s], events[j], Len(sent[s])) /\ Covered(s) <= Len(events[j])
          BY <4>1 DEF ReaderInv
        <5>2. QED
          BY <1>1, <1>2, <2>1, <5>1, ReplaysGrow
      <4>5. Covered(s) <= Len(events'[j]) /\ last[s] <= Covered(s)
        <5>1. Covered(s) <= Len(events[j]) /\ last[s] <= Covered(s)
          BY <4>1 DEF ReaderInv
        <5>2. Len(events[j]) \in Nat /\ Len(events'[j]) = Len(events[j]) + 1 /\ Covered(s) \in Nat
          BY <1>2, <2>1
        <5>3. QED
          BY <5>1, <5>2
      <4>6. Covered(s)' = Covered(s)
        BY <1>5 DEF Covered
      <4>7. QED
        BY <1>5, <4>2, <4>3, <4>4, <4>5, <4>6 DEF ReaderInv
    <3>4. QED
      BY <1>5, <2>1, <2>3, <3>1, <3>2, <3>3 DEF StreamOK
  <2>4. QED
    BY <2>2, <2>3
<1>7. QED
  BY <1>5, <1>6 DEF StreamInv

\* When the job is done the sentinel becomes the last tick of every queue.
LEMMA FinishKept ==
    ASSUME TypeOK, IInv, StreamInv, NEW j \in Jobs, FinishForAll(j)
    PROVE  StreamInv'
<1>1. /\ done' = [done EXCEPT ![j] = TRUE] /\ done'[j] = TRUE /\ UNCHANGED <<state, events>>
  BY DEF FinishForAll, Finish, TypeOK
<1>2. done[j] = FALSE
  BY DEF FinishForAll, Finish, At, IInv, LoopInv, Jobs, NoJob, TypeOK
<1>3. Sentinel \in Ticks
  BY DEF Sentinel, Tick, Ticks, Positions
<1>4. /\ StreamTypes' /\ OnlyReadersSubscribed'
      /\ UNCHANGED <<source, phase, history, last, doneAlready, sent, final>>
      /\ \A s \in Streams :
            queue'[s] = IF source[s] = j /\ phase[s] \in {"history", "live", "leaving"}
                        THEN Append(queue[s], Sentinel) ELSE queue[s]
  BY <1>3, BroadcastTypes DEF FinishForAll
<1>5. ASSUME NEW s \in Streams PROVE StreamOK(s)'
  <2>1. /\ StreamOK(s) /\ (phase[s] = "unopened" <=> source[s] = NoJob)
        /\ sent[s] \in Seq(Stages) /\ history[s] \in Seq(Stages) /\ queue[s] \in Seq(Ticks)
        /\ Len(sent[s]) \in Nat /\ Covered(s) \in Nat
        /\ Covered(s) = Len(sent[s]) + Len(history[s])
    BY StreamFacts DEF StreamInv
  <2>2. CASE source[s] # j
    <3>1. done'[source[s]] = done[source[s]] /\ queue'[s] = queue[s]
      BY <1>1, <1>4, <2>2 DEF TypeOK
    <3>2. QED
      BY <1>1, <1>4, <2>1, <3>1, StreamFrame
  <2>3. CASE source[s] = j
    <3>1. phase[s] # "unopened" /\ phase[s] # "closed"
      BY <1>2, <2>1, <2>3 DEF StreamOK, Jobs, NoJob
    <3>2. ASSUME phase[s] \in {"history", "live"} PROVE ReaderInv(s, j)'
      <4>1. ReaderInv(s, j)
        BY <2>1, <2>3, <3>2 DEF StreamOK
      <4>2. /\ ~doneAlready[s] /\ Follows(queue[s], events[j], Covered(s), FALSE)
            /\ Covered(s) <= Len(events[j])
        BY <1>2, <4>1 DEF ReaderInv
      <4>3. queue'[s] = Append(queue[s], Sentinel) /\ done'[j] = TRUE
        BY <1>1, <1>4, <2>3, <3>2 DEF TypeOK
      <4>4. events[j] \in Seq(Stages)
        BY DEF TypeOK
      <4>5. Follows(Append(queue[s], Sentinel), events[j], Covered(s), TRUE)
        BY <2>1, <4>2, <4>4, FollowsFinish
      <4>6. Covered(s)' = Covered(s)
        BY <1>4 DEF Covered
      <4>7. QED
        BY <1>1, <1>4, <4>1, <4>2, <4>3, <4>5, <4>6 DEF ReaderInv
    <3>3. QED
      BY <1>1, <1>4, <2>1, <2>3, <3>1, <3>2 DEF StreamOK
  <2>4. QED
    BY <2>2, <2>3
<1>6. QED
  BY <1>4, <1>5 DEF StreamInv
\* A step of stream s alone keeps what the invariant says of the others.
LEMMA OthersKept ==
    ASSUME StreamInv, UNCHANGED vars, NEW s \in Streams,
           StreamTypes', OnlyReadersSubscribed', StreamOK(s)',
           \A q \in Streams \ {s} :
               /\ queue'[q] = queue[q] /\ source'[q] = source[q] /\ phase'[q] = phase[q]
               /\ history'[q] = history[q] /\ last'[q] = last[q]
               /\ doneAlready'[q] = doneAlready[q]
               /\ sent'[q] = sent[q] /\ final'[q] = final[q]
    PROVE  StreamInv'
<1>1. UNCHANGED <<state, events, done>>
  BY DEF vars, recordVars
<1>2. ASSUME NEW q \in Streams, q # s PROVE StreamOK(q)'
  <2>1. StreamOK(q)
    BY DEF StreamInv
  <2>2. QED
    BY <1>1, <1>2, <2>1, StreamFrame
<1>3. QED
  BY <1>2 DEF StreamInv

\* A stream that ends gives its queue back.
LEMMA Unsubscribed ==
    ASSUME StreamInv, NEW s \in Streams, NEW p \in {"closed", "left"},
           source' = source, phase' = [phase EXCEPT ![s] = p],
           subscribers' = [subscribers EXCEPT ![source[s]] = @ \ {s}]
    PROVE  OnlyReadersSubscribed' /\ subscribers' \in [Jobs -> SUBSET Streams]
<1>1. /\ subscribers \in [Jobs -> SUBSET Streams] /\ phase \in [Streams -> Phases]
      /\ OnlyReadersSubscribed
  BY DEF StreamInv, StreamTypes, StreamTypeOK
<1>2. ASSUME NEW j \in Jobs
      PROVE  subscribers'[j] =
                 {q \in Streams : source'[q] = j /\ phase'[q] \in {"history", "live", "leaving"}}
  <2>1. subscribers[j] =
            {q \in Streams : source[q] = j /\ phase[q] \in {"history", "live", "leaving"}}
    BY <1>1 DEF OnlyReadersSubscribed
  <2>2. \A q \in Streams : phase'[q] = IF q = s THEN p ELSE phase[q]
    BY <1>1
  <2>3. subscribers'[j] = IF source[s] = j THEN subscribers[j] \ {s} ELSE subscribers[j]
    BY <1>1
  <2>4. QED
    BY <2>1, <2>2, <2>3
<1>3. QED
  BY <1>1, <1>2 DEF OnlyReadersSubscribed

\* Subscription and snapshot: everything the job published is to be replayed,
\* everything it will publish is to come through the queue.
LEMMA OpenKept ==
    ASSUME TypeOK, StreamInv, NEW s \in Streams, NEW j \in Jobs, Open(s, j)
    PROVE  StreamInv'
<1>1. /\ phase[s] = "unopened" /\ UNCHANGED vars /\ UNCHANGED <<queue, sent, final>>
      /\ subscribers' = [subscribers EXCEPT ![j] = @ \cup {s}]
      /\ source' = [source EXCEPT ![s] = j]
      /\ history' = [history EXCEPT ![s] = events[j]]
      /\ last' = [last EXCEPT ![s] = Len(events[j])]
      /\ doneAlready' = [doneAlready EXCEPT ![s] = done[j]]
      /\ phase' = [phase EXCEPT ![s] = "history"]
  BY DEF Open
<1>2. /\ events[j] \in Seq(Stages) /\ Len(events[j]) \in Nat /\ done[j] \in BOOLEAN
      /\ j \in JobOrNone /\ j # NoJob /\ UNCHANGED <<events, done, state>>
  <2>1. events[j] \in Seq(Stages) /\ done[j] \in BOOLEAN
    BY DEF TypeOK
  <2>2. j \in JobOrNone /\ j # NoJob
    BY DEF Jobs, JobOrNone, NoJob
  <2>3. QED
    BY <1>1, <2>1, <2>2 DEF vars, recordVars
<1>3. StreamTypes /\ OnlyReadersSubscribed /\ StreamOK(s)
  BY DEF StreamInv
<1>4. StreamTypes'
  BY <1>1, <1>2, <1>3 DEF StreamTypes, StreamTypeOK, Phases
<1>5. OnlyReadersSubscribed'
  <2> SUFFICES ASSUME NEW i \in Jobs
               PROVE  subscribers'[i] =
                   {q \in Streams : source'[q] = i /\ phase'[q] \in {"history", "live", "leaving"}}
    BY DEF OnlyReadersSubscribed
  <2>1. subscribers[i] =
            {q \in Streams : source[q] = i /\ phase[q] \in {"history", "live", "leaving"}}
    BY <1>3 DEF OnlyReadersSubscribed
  <2>2. \A q \in Streams : /\ phase'[q] = IF q = s THEN "history" ELSE phase[q]
                           /\ source'[q] = IF q = s THEN j ELSE source[q]
    BY <1>1, <1>3 DEF StreamTypes, StreamTypeOK
  <2>3. subscribers'[i] = IF i = j THEN subscribers[i] \cup {s} ELSE subscribers[i]
    BY <1>1, <1>3 DEF StreamTypes, StreamTypeOK
  <2>4. QED
    BY <1>1, <2>1, <2>2, <2>3
<1>6. StreamOK(s)'
  <2>1. queue[s] = <<>> /\ sent[s] = <<>>
    BY <1>1, <1>3 DEF StreamOK
  <2>2. /\ source'[s] = j /\ history'[s] = events[j] /\ last'[s] = Len(events[j])
        /\ doneAlready'[s] = done[j] /\ phase'[s] = "history"
        /\ queue'[s] = <<>> /\ sent'[s] = <<>>
    BY <1>1, <1>3, <2>1 DEF StreamTypes, StreamTypeOK
  <2>3. Covered(s)' = Len(events[j])
    BY <1>2, <2>2 DEF Covered
  <2>4. Replays(events[j], events[j], 0) /\ Begins(<<>>, events[j])
    BY <1>2 DEF Replays, Begins
  <2>5. Follows(<<>>, events[j], Len(events[j]), FALSE)
    BY <1>2 DEF Follows
  <2>6. ReaderInv(s, j)'
    <3>1. ~doneAlready'[s] => Follows(queue'[s], events'[j], Covered(s)', done'[j])
      BY <1>2, <2>2, <2>3, <2>5
    <3>2. Replays(history'[s], events'[j], Len(sent'[s]))
      BY <1>2, <2>2, <2>4
    <3>3. QED
      BY <1>2, <2>2, <2>3, <3>1, <3>2 DEF ReaderInv
  <2>7. QED
    BY <1>2, <2>2, <2>4, <2>6 DEF StreamOK
<1>7. QED
  BY <1>1, <1>3, <1>4, <1>5, <1>6, OthersKept DEF StreamTypes, StreamTypeOK

\* The generator yields the next event of its snapshot.
LEMMA ReplayKept ==
    ASSUME TypeOK, StreamInv, NEW s \in Streams, ReplayHistory(s)
    PROVE  StreamInv'
<1> DEFINE j == source[s]
<1>1. /\ phase[s] = "history" /\ history[s] # <<>>
      /\ sent' = [sent EXCEPT ![s] = Append(@, Head(history[s]))]
      /\ history' = [history EXCEPT ![s] = Tail(@)]
      /\ UNCHANGED vars /\ UNCHANGED <<subscribers, queue, source, phase, last, doneAlready, final>>
  BY DEF ReplayHistory, Yield
<1>2. /\ StreamTypes /\ OnlyReadersSubscribed /\ StreamOK(s)
      /\ j \in Jobs
  BY <1>1, ReaderFacts DEF StreamInv
<1>3. /\ events[j] \in Seq(Stages) /\ Len(events[j]) \in Nat /\ UNCHANGED <<events, done, state>>
  BY <1>1, <1>2 DEF TypeOK, vars, recordVars
<1>4. /\ sent[s] \in Seq(Stages) /\ history[s] \in Seq(Stages)
      /\ Len(sent[s]) \in Nat /\ Covered(s) \in Nat
      /\ Covered(s) = Len(sent[s]) + Len(history[s])
  BY <1>2, StreamFacts
<1>5. /\ Tail(history[s]) \in Seq(Stages) /\ Head(history[s]) \in Stages
      /\ Len(Tail(history[s])) = Len(history[s]) - 1 /\ Len(history[s]) \in Nat \ {0}
  BY <1>1, <1>4, TailFacts
<1>6. ReaderInv(s, j) /\ Begins(sent[s], events[j])
  BY <1>1, <1>2 DEF StreamOK
<1>7. /\ Head(history[s]) = events[j][Len(sent[s]) + 1]
      /\ Replays(Tail(history[s]), events[j], Len(sent[s]) + 1)
  <2>1. Replays(history[s], events[j], Len(sent[s]))
    BY <1>6 DEF ReaderInv
  <2>2. QED
    BY <1>1, <1>4, <2>1, ReplaysHead
<1>8. /\ Append(sent[s], Head(history[s])) \in Seq(Stages)
      /\ Len(Append(sent[s], Head(history[s]))) = Len(sent[s]) + 1
      /\ Begins(Append(sent[s], Head(history[s])), events[j])
  <2>1. Covered(s) <= Len(events[j])
    BY <1>6 DEF ReaderInv
  <2>2. /\ Len(sent[s]) \in Nat /\ Len(history[s]) \in Nat \ {0}
        /\ Len(events[j]) \in Nat /\ Len(sent[s]) + Len(history[s]) <= Len(events[j])
    BY <1>3, <1>4, <1>5, <2>1
  <2>3. Len(sent[s]) + 1 <= Len(events[j])
    BY <2>2, NextFits
  <2>4. QED
    BY <1>3, <1>4, <1>6, <1>7, <2>3, BeginsNext
<1>9. /\ sent'[s] = Append(sent[s], Head(history[s])) /\ history'[s] = Tail(history[s])
  BY <1>1, <1>2 DEF StreamTypes, StreamTypeOK
<1>10. Covered(s)' = Covered(s)
  <2>1. Covered(s)' = Len(sent'[s]) + Len(history'[s])
    BY DEF Covered
  <2>2. Len(sent[s]) \in Nat /\ Len(history[s]) \in Nat \ {0}
    BY <1>4, <1>5
  <2>3. (Len(sent[s]) + 1) + (Len(history[s]) - 1) = Len(sent[s]) + Len(history[s])
    BY <2>2, MovedOne
  <2>4. QED
    BY <1>4, <1>5, <1>8, <1>9, <2>1, <2>3
<1>11. StreamTypes' /\ OnlyReadersSubscribed'
  BY <1>1, <1>2, <1>5, <1>8 DEF StreamTypes, StreamTypeOK, OnlyReadersSubscribed
<1>12. ReaderInv(s, j)'
  BY <1>1, <1>3, <1>6, <1>7, <1>8, <1>9, <1>10 DEF ReaderInv
<1>13. StreamOK(s)'
  BY <1>1, <1>3, <1>8, <1>9, <1>12 DEF StreamOK
<1>14. QED
  BY <1>1, <1>2, <1>11, <1>13, OthersKept DEF StreamTypes, StreamTypeOK
\* The generator returns: the client has the whole history of a job that is
\* over, and the "done" frame its final state.
LEMMA CloseKept ==
    ASSUME TypeOK, StreamInv, NEW s \in Streams, phase[s] \in {"history", "live"}, Close(s),
           UNCHANGED vars, UNCHANGED <<source, history, last, doneAlready, sent>>,
           history[s] = <<>>, done[source[s]], Covered(s) = Len(events[source[s]]),
           queue' \in [Streams -> Seq(Ticks)],
           \A q \in Streams \ {s} : queue'[q] = queue[q]
    PROVE  StreamInv'
<1> DEFINE j == source[s]
<1>1. StreamTypes /\ OnlyReadersSubscribed /\ StreamOK(s) /\ j \in Jobs
  BY ReaderFacts DEF StreamInv
<1>2. /\ subscribers' = [subscribers EXCEPT ![j] = @ \ {s}]
      /\ phase' = [phase EXCEPT ![s] = "closed"]
      /\ final' = [final EXCEPT ![s] = state[j]]
      /\ UNCHANGED <<events, done, state>>
  BY DEF Close, vars, recordVars
<1>3. OnlyReadersSubscribed' /\ subscribers' \in [Jobs -> SUBSET Streams]
  BY <1>2, Unsubscribed
<1>4. state[j] \in States
  BY <1>1 DEF TypeOK
<1>5. StreamTypes'
  BY <1>1, <1>2, <1>3, <1>4 DEF StreamTypes, StreamTypeOK, Phases
<1>6. phase'[s] = "closed" /\ final'[s] = state[j]
  BY <1>1, <1>2 DEF StreamTypes, StreamTypeOK
<1>7. Len(sent[s]) = Len(events[j])
  <2>1. Covered(s) = Len(sent[s]) + 0 /\ Len(sent[s]) \in Nat
    BY <1>1, StreamFacts
  <2>2. QED
    BY <2>1
<1>8. Begins(sent[s], events[j])
  BY <1>1 DEF StreamOK
<1>9. StreamOK(s)'
  BY <1>2, <1>6, <1>7, <1>8 DEF StreamOK
<1>10. \A q \in Streams \ {s} : phase'[q] = phase[q] /\ final'[q] = final[q]
  BY <1>1, <1>2 DEF StreamTypes, StreamTypeOK
<1>11. QED
  BY <1>3, <1>5, <1>9, <1>10, OthersKept

\* The end of the snapshot: the stream of a job that was done by then ends.
LEMMA EndHistoryKept ==
    ASSUME TypeOK, StreamInv, NEW s \in Streams, EndHistory(s)
    PROVE  StreamInv'
<1>1. /\ phase[s] = "history" /\ history[s] = <<>>
      /\ UNCHANGED vars /\ UNCHANGED <<queue, source, history, last, doneAlready, sent>>
  BY DEF EndHistory
<1>2. /\ StreamTypes /\ OnlyReadersSubscribed /\ StreamOK(s) /\ source[s] \in Jobs
  BY <1>1, ReaderFacts DEF StreamInv
<1>3. ReaderInv(s, source[s])
  BY <1>1, <1>2 DEF StreamOK
<1>4. CASE doneAlready[s] /\ Close(s)
  <2>1. done[source[s]] /\ Covered(s) = Len(events[source[s]])
    BY <1>3, <1>4 DEF ReaderInv
  <2>2. queue' \in [Streams -> Seq(Ticks)] /\ queue' = queue
    BY <1>1, <1>2 DEF StreamTypes, StreamTypeOK
  <2>3. QED
    BY <1>1, <1>4, <2>1, <2>2, CloseKept
<1>5. CASE ~doneAlready[s] /\ phase' = [phase EXCEPT ![s] = "live"] /\ UNCHANGED <<subscribers, final>>
  <2>1. \A q \in Streams : phase'[q] = IF q = s THEN "live" ELSE phase[q]
    BY <1>2, <1>5 DEF StreamTypes, StreamTypeOK
  <2>2. StreamTypes'
    BY <1>1, <1>2, <1>5, <2>1 DEF StreamTypes, StreamTypeOK, Phases
  <2>3. OnlyReadersSubscribed'
    BY <1>1, <1>2, <1>5, <2>1 DEF OnlyReadersSubscribed
  <2>4. UNCHANGED <<events, done, state>>
    BY <1>1 DEF vars, recordVars
  <2>5. ReaderInv(s, source[s])'
    BY <1>1, <1>2, <1>3, <2>4, ReaderFrame
  <2>6. StreamOK(s)'
    BY <1>1, <1>2, <1>5, <2>1, <2>4, <2>5 DEF StreamOK
  <2>7. QED
    BY <1>1, <1>5, <2>1, <2>2, <2>3, <2>6, OthersKept
<1>6. QED
  BY <1>4, <1>5 DEF EndHistory

\* A turn of the live loop takes the next event from the queue, or the sentinel
\* when every event has been sent.
LEMMA FollowLiveKept ==
    ASSUME TypeOK, StreamInv, NEW s \in Streams, FollowLive(s)
    PROVE  StreamInv'
<1> DEFINE j == source[s]
           e == events[j]
           c == Covered(s)
<1>1. /\ phase[s] = "live" /\ queue[s] # <<>>
      /\ queue' = [queue EXCEPT ![s] = Tail(@)]
      /\ UNCHANGED vars /\ UNCHANGED <<source, history, last, doneAlready>>
      /\ \/ Head(queue[s]) = Sentinel /\ Close(s) /\ UNCHANGED sent
         \/ /\ Head(queue[s]) # Sentinel
            /\ IF Head(queue[s]).seq > last[s] THEN Yield(s, Head(queue[s]).stage)
                                               ELSE UNCHANGED sent
            /\ UNCHANGED <<subscribers, phase, final>>
  BY DEF FollowLive
<1>2. StreamTypes /\ OnlyReadersSubscribed /\ StreamOK(s) /\ j \in Jobs
  BY <1>1, ReaderFacts DEF StreamInv
<1>3. /\ e \in Seq(Stages) /\ Len(e) \in Nat /\ done[j] \in BOOLEAN
      /\ UNCHANGED <<events, done, state>>
  <2>1. e \in Seq(Stages) /\ done[j] \in BOOLEAN
    BY <1>2 DEF TypeOK
  <2>2. QED
    BY <1>1, <2>1 DEF vars, recordVars
<1>4. /\ sent[s] \in Seq(Stages) /\ queue[s] \in Seq(Ticks)
      /\ Len(sent[s]) \in Nat /\ c \in Nat /\ last[s] \in Nat
  BY <1>2, StreamFacts DEF StreamTypes, StreamTypeOK
<1>5. ReaderInv(s, j) /\ history[s] = <<>> /\ ~doneAlready[s] /\ Begins(sent[s], e)
  BY <1>1, <1>2 DEF StreamOK
<1>6. c <= Len(e) /\ last[s] <= c /\ Follows(queue[s], e, c, done[j])
  BY <1>5 DEF ReaderInv
<1>7. c = Len(sent[s])
  <2>1. c = Len(sent[s]) + 0
    BY <1>2, <1>5, StreamFacts
  <2>2. QED
    BY <1>4, <2>1
<1>8. queue' \in [Streams -> Seq(Ticks)] /\ queue'[s] = Tail(queue[s])
      /\ \A q \in Streams \ {s} : queue'[q] = queue[q]
  <2>1. Tail(queue[s]) \in Seq(Ticks)
    BY <1>1, <1>4, TailFacts
  <2>2. QED
    BY <1>1, <1>2, <2>1 DEF StreamTypes, StreamTypeOK
<1>9. CASE c = Len(e) /\ done[j] /\ Head(queue[s]) = Sentinel
  BY <1>1, <1>5, <1>8, <1>9, CloseKept
<1>10. CASE /\ c + 1 <= Len(e) /\ Head(queue[s]) = Tick(c + 1, e[c + 1])
            /\ Follows(Tail(queue[s]), e, c + 1, done[j])
  <2>1. /\ Head(queue[s]).seq = c + 1 /\ Head(queue[s]).stage = e[c + 1]
        /\ Head(queue[s]) # Sentinel /\ c + 1 > last[s]
    BY <1>4, <1>6, <1>10 DEF Tick, Sentinel
  <2>2. sent' = [sent EXCEPT ![s] = Append(@, e[c + 1])] /\ UNCHANGED <<subscribers, phase, final>>
    BY <1>1, <2>1 DEF Yield
  <2>3. /\ Append(sent[s], e[c + 1]) \in Seq(Stages)
        /\ Len(Append(sent[s], e[c + 1])) = c + 1 /\ Begins(Append(sent[s], e[c + 1]), e)
    BY <1>3, <1>4, <1>5, <1>7, <1>10, BeginsNext
  <2>4. sent'[s] = Append(sent[s], e[c + 1])
    BY <1>2, <2>2 DEF StreamTypes, StreamTypeOK
  <2>5. StreamTypes' /\ OnlyReadersSubscribed'
    BY <1>1, <1>2, <1>8, <2>2, <2>3 DEF StreamTypes, StreamTypeOK, OnlyReadersSubscribed
  <2>6. Covered(s)' = c + 1
    <3>1. Covered(s)' = Len(sent'[s]) + 0
      BY <1>1, <1>5 DEF Covered
    <3>2. QED
      BY <1>4, <2>3, <2>4, <3>1
  <2>7. ReaderInv(s, j)'
    <3>1. Replays(history'[s], e, Len(sent'[s]))
      BY <1>1, <1>5 DEF Replays
    <3>2. last'[s] <= c + 1
      BY <1>1, <1>4, <1>6
    <3>3. QED
      BY <1>1, <1>3, <1>5, <1>8, <1>10, <2>6, <3>1, <3>2 DEF ReaderInv
  <2>8. StreamOK(s)'
    BY <1>1, <1>3, <1>5, <2>2, <2>3, <2>4, <2>7 DEF StreamOK
  <2>9. \A q \in Streams \ {s} : sent'[q] = sent[q]
    BY <1>2, <2>2 DEF StreamTypes, StreamTypeOK
  <2>10. QED
    BY <1>1, <1>8, <2>2, <2>5, <2>8, <2>9, OthersKept
<1>11. QED
  BY <1>1, <1>3, <1>4, <1>6, <1>9, <1>10, FollowsHead

\* A client that leaves keeps what it has received; its queue is given back.
LEMMA LeaveKept ==
    ASSUME TypeOK, StreamInv, NEW s \in Streams, Disconnect(s) \/ Finalise(s)
    PROVE  StreamInv'
<1>1. /\ UNCHANGED vars /\ UNCHANGED <<queue, source, history, last, doneAlready, sent, final>>
      /\ phase[s] \in {"history", "live", "leaving"}
  BY DEF Disconnect, Finalise
<1>2. StreamTypes /\ OnlyReadersSubscribed /\ StreamOK(s) /\ source[s] \in Jobs
  BY <1>1, ReaderFacts DEF StreamInv
<1>3. UNCHANGED <<events, done, state>>
  BY <1>1 DEF vars, recordVars
<1>4. ASSUME NEW p \in {"leaving", "left"}, phase' = [phase EXCEPT ![s] = p],
             subscribers' \in [Jobs -> SUBSET Streams], OnlyReadersSubscribed'
      PROVE  StreamInv'
  <2>1. \A q \in Streams : phase'[q] = IF q = s THEN p ELSE phase[q]
    BY <1>2, <1>4 DEF StreamTypes, StreamTypeOK
  <2>2. StreamTypes'
    BY <1>1, <1>2, <1>4, <2>1 DEF StreamTypes, StreamTypeOK, Phases
  <2>3. StreamOK(s)'
    BY <1>1, <1>2, <1>3, <2>1 DEF StreamOK
  <2>4. QED
    BY <1>1, <1>4, <2>1, <2>2, <2>3, OthersKept
<1>5. CASE Disconnect(s)
  <2>1. phase' = [phase EXCEPT ![s] = "leaving"] /\ subscribers' = subscribers
    BY <1>5 DEF Disconnect
  <2>2. \A q \in Streams : phase'[q] = IF q = s THEN "leaving" ELSE phase[q]
    BY <1>2, <2>1 DEF StreamTypes, StreamTypeOK
  <2>3. OnlyReadersSubscribed'
    BY <1>1, <1>2, <2>1, <2>2 DEF OnlyReadersSubscribed
  <2>4. QED
    BY <1>2, <1>4, <2>1, <2>3 DEF StreamTypes, StreamTypeOK
<1>6. CASE Finalise(s)
  <2>1. phase' = [phase EXCEPT ![s] = "left"]
        /\ subscribers' = [subscribers EXCEPT ![source[s]] = @ \ {s}]
    BY <1>6 DEF Finalise
  <2>2. QED
    BY <1>1, <1>4, <2>1, Unsubscribed
<1>7. QED
  BY <1>5, <1>6
\* In every reachable state each stream has sent how its job's history begins,
\* and its snapshot and its queue hold the rest.
THEOREM StreamInvariant == ClientSpec => []StreamInv
<1>1. ClientInit => StreamInv
  <2> SUFFICES ASSUME ClientInit PROVE StreamInv
    OBVIOUS
  <2>1. NoJob \in JobOrNone
    BY ConstantsAssumption DEF NoJob, JobOrNone
  <2>2. StreamTypes
    BY <2>1 DEF ClientInit, StreamInit, StreamTypes, StreamTypeOK, Phases, States
  <2>3. OnlyReadersSubscribed
    BY DEF ClientInit, StreamInit, OnlyReadersSubscribed
  <2>4. \A s \in Streams : StreamOK(s)
    BY DEF ClientInit, StreamInit, StreamOK
  <2>5. QED
    BY <2>2, <2>3, <2>4 DEF StreamInv
<1>2. TypeOK /\ IInv /\ StreamInv /\ [ClientNext]_clientVars => StreamInv'
  <2> SUFFICES ASSUME TypeOK, IInv, StreamInv, [ClientNext]_clientVars PROVE StreamInv'
    OBVIOUS
  <2>1. [Next]_vars
    BY ClientSteps
  <2>2. CASE UNCHANGED <<events, done>> /\ UNCHANGED streamVars
    BY <2>1, <2>2, QuietSteps
  <2>3. ASSUME NEW p \in Pollers, Poll(p), UNCHANGED <<vars, streamVars>> PROVE StreamInv'
    BY <2>2, <2>3 DEF vars, recordVars
  <2>4. CASE UNCHANGED <<vars, streamVars, pollVars>>
    BY <2>2, <2>4 DEF vars, recordVars
  <2>5. CASE Submission /\ UNCHANGED streamVars
    BY <2>2, <2>5 DEF Submission, SubmitIngest, SubmitQuery
  <2>6. ASSUME NEW j \in Jobs, Cancel(j) \/ Dispatch(j) \/ Worker(j), UNCHANGED streamVars
        PROVE  StreamInv'
    BY <2>2, <2>6 DEF Cancel, Dispatch, Worker, PassBoundary, StopAtBoundary, WorkFails,
       WorkReturns, EndWork, recordVars
  <2>7. ASSUME NEW j \in Jobs, StreamLoop(j) PROVE StreamInv'
    <3>1. CASE PublishToAll(j)
      BY <3>1, PublishKept
    <3>2. CASE FinishForAll(j)
      BY <3>2, FinishKept
    <3>3. CASE QuietLoop(j)
      BY <2>2, <3>3 DEF QuietLoop
    <3>4. QED
      BY <2>7, <3>1, <3>2, <3>3 DEF StreamLoop
  <2>8. ASSUME NEW s \in Streams, (\E j \in Jobs : Open(s, j)) \/ Reader(s) \/ Disconnect(s)
        PROVE  StreamInv'
    BY <2>8, OpenKept, ReplayKept, EndHistoryKept, FollowLiveKept, LeaveKept DEF Reader
  <2>9. CASE StreamNext /\ UNCHANGED pollVars
    BY <2>5, <2>6, <2>7, <2>8, <2>9 DEF StreamNext
  <2>10. QED
    BY <2>3, <2>4, <2>9, ClientSteps
<1>3. QED
  BY <1>1, <1>2, JobsInvariant, PTL DEF ClientSpec

\* No event is lost, repeated or reordered on the way to a client, wherever its
\* stream was opened relative to the publications (stream, _publish).
THEOREM DeliveredInOrder == ClientSpec => []ReceivedIsPrefix
<1>1. TypeOK /\ StreamInv => ReceivedIsPrefix
  <2> SUFFICES ASSUME TypeOK, StreamInv, NEW s \in Streams, source[s] # NoJob
               PROVE  /\ Len(sent[s]) <= Len(events[source[s]])
                      /\ sent[s] = SubSeq(events[source[s]], 1, Len(sent[s]))
    BY DEF ReceivedIsPrefix
  <2>1. StreamOK(s) /\ sent[s] \in Seq(Stages) /\ phase[s] # "unopened"
    BY StreamFacts DEF StreamInv
  <2>2. source[s] \in Jobs
    BY <2>1, ReaderFacts
  <2>3. Begins(sent[s], events[source[s]]) /\ events[source[s]] \in Seq(Stages)
    BY <2>1, <2>2 DEF StreamOK, TypeOK
  <2>4. QED
    BY <2>1, <2>3, BeginsIsSubSeq DEF Begins
<1>2. QED
  BY <1>1, StreamInvariant, JobsInvariant, PTL

\* A stream that ends by itself has delivered the whole history of a job that
\* is over, and its "done" frame carries the state the job ended in.
THEOREM CompleteStreams == ClientSpec => []ClosedIsComplete
<1>1. TypeOK /\ IInv /\ StreamInv => ClosedIsComplete
  <2> SUFFICES ASSUME TypeOK, IInv, StreamInv, NEW s \in Streams, phase[s] = "closed"
               PROVE  /\ sent[s] = events[source[s]]
                      /\ final[s] \in Terminal
                      /\ final[s] = state[source[s]]
    BY DEF ClosedIsComplete
  <2>1. StreamOK(s) /\ sent[s] \in Seq(Stages) /\ source[s] \in Jobs
    BY StreamFacts, ReaderFacts DEF StreamInv
  <2>2. /\ Begins(sent[s], events[source[s]]) /\ Len(sent[s]) = Len(events[source[s]])
        /\ done[source[s]] /\ final[s] = state[source[s]]
    BY <2>1 DEF StreamOK
  <2>3. events[source[s]] \in Seq(Stages)
    BY <2>1 DEF TypeOK
  <2>4. sent[s] = events[source[s]]
    BY <2>1, <2>2, <2>3 DEF Begins
  <2>5. state[source[s]] \in Terminal
    BY <2>1, <2>2 DEF IInv, RecordInv
  <2>6. QED
    BY <2>2, <2>4, <2>5
<1>2. QED
  BY <1>1, StreamInvariant, JobsInvariant, PTL

\* A stream that ended or was abandoned gives its queue back: only generators
\* that may still read stay subscribed (the finally clause of stream).
THEOREM QueuesGivenBack == ClientSpec => []OnlyReadersSubscribed
<1>1. StreamInv => OnlyReadersSubscribed
  BY DEF StreamInv
<1>2. QED
  BY <1>1, StreamInvariant, PTL
-----------------------------------------------------------------------------
(* Views. *)

\* A job whose outcome is known has its result or its shaped error in place.
LEMMA SettledRecord ==
    ASSUME TypeOK, IInv, OutcomeInv, NEW i \in Jobs, Settled(i)
    PROVE  FullRecord(i)
<1>1. state[i] \in Terminal
  BY DEF Settled, IInv, RecordInv, Terminal
<1>2. /\ done[i] \/ loop = At("error", i) \/ loop = At("finish", i)
      /\ outcome[i] # "none"
  BY <1>1 DEF IInv, RecordInv, Terminal, TypeOK
<1>3. state[i] = "succeeded" <=> outcome[i] = "succeeded"
  BY <1>1 DEF OutcomeInv, EndState
<1>4. done[i] \/ loop = At("finish", i)
  BY <1>2, <1>3 DEF OutcomeInv, Settled
<1>5. result[i] <=> outcome[i] = "succeeded"
  BY <1>4 DEF OutcomeInv, At
<1>6. error[i] = "none" <=> outcome[i] = "succeeded"
  BY <1>2, <1>4 DEF OutcomeInv
<1>7. QED
  BY <1>1, <1>3, <1>5, <1>6 DEF FullRecord

\* That record stays as it is.
LEMMA SettledSteps ==
    ASSUME TypeOK, IInv, OutcomeInv, TypeOK', [Next]_vars, NEW i \in Jobs, Settled(i),
           FullRecord(i), FullRecord(i)'
    PROVE  /\ state'[i] = state[i] /\ events'[i] = events[i]
           /\ error'[i] = error[i] /\ result'[i] = result[i]
           /\ done[i] => done'[i]
<1>1. state'[i] = state[i] /\ events'[i] = events[i]
  BY StateSteps DEF FullRecord
<1>2. (error[i] # "none" => error'[i] = error[i]) /\ (done[i] => done'[i])
  BY RecordSteps
<1>3. error'[i] = error[i]
  BY <1>1, <1>2 DEF FullRecord
<1>4. result'[i] = result[i]
  <2>1. result[i] \in BOOLEAN /\ result'[i] \in BOOLEAN
    BY DEF TypeOK
  <2>2. QED
    BY <1>1, <2>1 DEF FullRecord
<1>5. QED
  BY <1>1, <1>2, <1>3, <1>4

\* The steps of the job layer leave what was read of a settled job in place.
LEMMA ViewRecord ==
    ASSUME TypeOK, IInv, OutcomeInv, PollInv, ViewInv, TypeOK', [Next]_vars,
           \A i \in Jobs : Settled(i) => FullRecord(i) /\ FullRecord(i)',
           NEW p \in Pollers, view'[p] = view[p], answer'[p] = answer[p],
           reading'[p] = reading[p], toldBefore'[p] = toldBefore[p], told'[p] = told[p]
    PROVE  ViewOK(p)'
<1> DEFINE v == view[p]
           a == answer[p].latest
<1>1. \A i \in Jobs : Settled(i) =>
          /\ state'[i] = state[i] /\ events'[i] = events[i]
          /\ error'[i] = error[i] /\ result'[i] = result[i]
          /\ done[i] => done'[i]
  BY SettledSteps
<1>2. /\ ViewOK(p) /\ StillTrue(v) /\ StillTrue(a)
      /\ reading[p] # "nothing" => v.job \in Jobs
  BY DEF ViewInv, PollInv, Overtakes
<1>3. \A j \in Jobs : j # NoJob
  BY DEF Jobs, NoJob
<1>4. reading[p] # "nothing" /\ (toldBefore[p] \/ v.state = "succeeded") => Settled(v.job)
  BY <1>2, <1>3 DEF ViewOK, StillTrue, Onward, Settled, Terminal
<1>5. told[p] \/ a.state = "succeeded" => a.job \in Jobs /\ Settled(a.job)
  BY <1>2, <1>3 DEF ViewOK, StillTrue, Onward, Settled, Terminal
<1>6. QED
  BY <1>1, <1>2, <1>4, <1>5 DEF ViewOK, Settled

\* A poll reads the record of a settled job as it is.
LEMMA ViewMoves ==
    ASSUME TypeOK, IInv, StreamInv, PollInv, ViewInv, NEW p \in Pollers, PollStep(p)
    PROVE  ViewInv'
<1> DEFINE v == view[p]
           a == answer[p].latest
<1>1. /\ Poll(p) /\ UNCHANGED <<state, events, error, result, done>>
      /\ toldBefore' = [toldBefore EXCEPT ![p] =
             IF reading[p] = "nothing" THEN DoneSeen(view'[p].job) ELSE @]
      /\ told' = [told EXCEPT ![p] = IF reading[p] = "result" THEN toldBefore[p] ELSE @]
  BY DEF PollStep, Poll, ReadState, ReadEvents, ReadError, ReadResult, vars, recordVars
<1>2. /\ toldBefore \in [Pollers -> BOOLEAN] /\ told \in [Pollers -> BOOLEAN]
      /\ view \in [Pollers -> Views]
      /\ answer \in [Pollers -> [before : Views, latest : Views]]
      /\ reading \in [Pollers -> {"nothing", "events", "error", "result"}]
      /\ ViewOK(p) /\ StillTrue(v)
      /\ reading[p] # "nothing" => v.job \in Jobs
  BY DEF ViewInv, PollInv, PollTypeOK, Overtakes
<1>3. \A j \in Jobs : DoneSeen(j) \in BOOLEAN /\ (DoneSeen(j) => done[j])
  <2>1. \A s \in Streams : phase[s] = "closed" => done[source[s]]
    BY DEF StreamInv, StreamOK
  <2>2. QED
    BY <2>1 DEF DoneSeen
<1>4. ASSUME NEW q \in Pollers, q # p PROVE ViewOK(q)'
  <2>1. /\ view'[q] = view[q] /\ answer'[q] = answer[q] /\ reading'[q] = reading[q]
    BY <1>1, <1>2, <1>4 DEF Poll, ReadState, ReadEvents, ReadError, ReadResult
  <2>2. toldBefore'[q] = toldBefore[q] /\ told'[q] = told[q]
    BY <1>1, <1>2, <1>4
  <2>3. ViewOK(q)
    BY DEF ViewInv
  <2>4. QED
    BY <1>1, <2>1, <2>2, <2>3 DEF ViewOK
<1>5. ASSUME ViewOK(p)', toldBefore'[p] \in BOOLEAN PROVE ViewInv'
  <2>1. toldBefore' \in [Pollers -> BOOLEAN] /\ told' \in [Pollers -> BOOLEAN]
    BY <1>1, <1>2, <1>5
  <2>2. QED
    BY <1>4, <1>5, <2>1 DEF ViewInv
<1>6. ASSUME NEW j \in Jobs, ReadState(p, j) PROVE ViewInv'
  <2>1. /\ reading[p] = "nothing" /\ reading'[p] = "events" /\ answer'[p] = answer[p]
        /\ view'[p].job = j /\ view'[p].state = state[j]
    BY <1>2, <1>6 DEF ReadState, NoView
  <2>2. toldBefore'[p] = DoneSeen(j) /\ told'[p] = told[p]
    BY <1>1, <1>2, <2>1
  <2>3. ViewOK(p)'
    BY <1>1, <1>2, <1>3, <2>1, <2>2 DEF ViewOK
  <2>4. QED
    BY <1>3, <1>5, <2>2, <2>3
<1>7. CASE ReadEvents(p)
  <2>1. /\ reading[p] = "events" /\ reading'[p] = "error" /\ answer'[p] = answer[p]
        /\ view'[p].job = v.job /\ view'[p].state = v.state /\ view'[p].events = events[v.job]
    BY <1>2, <1>7 DEF ReadEvents, Views
  <2>2. toldBefore'[p] = toldBefore[p] /\ told'[p] = told[p]
    BY <1>1, <1>2, <2>1
  <2>3. ViewOK(p)'
    BY <1>1, <1>2, <2>1, <2>2 DEF ViewOK
  <2>4. QED
    BY <1>2, <1>5, <2>2, <2>3
<1>8. CASE ReadError(p)
  <2>1. /\ reading[p] = "error" /\ reading'[p] = "result" /\ answer'[p] = answer[p]
        /\ view'[p].job = v.job /\ view'[p].state = v.state /\ view'[p].events = v.events
        /\ view'[p].error = error[v.job]
    BY <1>2, <1>8 DEF ReadError, Views
  <2>2. toldBefore'[p] = toldBefore[p] /\ told'[p] = told[p]
    BY <1>1, <1>2, <2>1
  <2>3. ViewOK(p)'
    BY <1>1, <1>2, <2>1, <2>2 DEF ViewOK
  <2>4. QED
    BY <1>2, <1>5, <2>2, <2>3
<1>9. CASE ReadResult(p)
  <2> DEFINE w == answer'[p].latest
  <2>1. /\ reading[p] = "result" /\ reading'[p] = "nothing" /\ v.job \in Jobs
        /\ w.job = v.job /\ w.state = v.state /\ w.events = v.events
        /\ w.error = v.error /\ w.result = result[v.job]
    BY <1>2, <1>9 DEF ReadResult, Views
  <2>2. toldBefore'[p] = toldBefore[p] /\ told'[p] = toldBefore[p]
    BY <1>1, <1>2, <2>1
  <2>3. ViewOK(p)'
    BY <1>1, <1>2, <2>1, <2>2 DEF ViewOK
  <2>4. QED
    BY <1>2, <1>5, <2>2, <2>3
<1>10. QED
  BY <1>1, <1>6, <1>7, <1>8, <1>9 DEF Poll

\* In every reachable state what was read of a settled job is its final record.
THEOREM ViewInvariant == ClientSpec => []ViewInv
<1>1. ClientInit => ViewInv
  BY DEF ClientInit, PollInit, ViewInv, ViewOK, NoView
<1>2. TypeOK /\ IInv /\ OutcomeInv => \A i \in Jobs : Settled(i) => FullRecord(i)
  BY SettledRecord
<1>3. ASSUME TypeOK, TypeOK', IInv, OutcomeInv, StreamInv, PollInv, ViewInv,
             \A i \in Jobs : Settled(i) => FullRecord(i),
             (\A i \in Jobs : Settled(i) => FullRecord(i))',
             [ClientNext]_clientVars
      PROVE  ViewInv'
  <2>1. [Next]_vars
    BY <1>3, ClientSteps
  <2>2. ASSUME NEW p \in Pollers, PollStep(p) PROVE ViewInv'
    BY <1>3, <2>2, ViewMoves
  <2>3. CASE UNCHANGED <<pollVars, toldBefore, told>>
    <3>1. \A i \in Jobs : Settled(i) => FullRecord(i) /\ FullRecord(i)'
      <4> SUFFICES ASSUME NEW i \in Jobs, Settled(i) PROVE FullRecord(i) /\ FullRecord(i)'
        OBVIOUS
      <4>1. FullRecord(i) /\ state'[i] = state[i] /\ (done[i] => done'[i])
        BY <1>3, <2>1, StateSteps, RecordSteps DEF FullRecord
      <4>2. Settled(i)'
        BY <4>1 DEF Settled
      <4>3. QED
        BY <1>3, <4>1, <4>2
    <3>2. \A p \in Pollers : ViewOK(p)'
      BY <1>3, <2>1, <2>3, <3>1, ViewRecord DEF pollVars
    <3>3. QED
      BY <1>3, <2>3, <3>2 DEF ViewInv
  <2>4. QED
    BY <1>3, <2>2, <2>3 DEF ClientNext, StreamStep, clientVars
<1>4. QED
  BY <1>1, <1>2, <1>3, JobsInvariant, StreamInvariant, PollInvariant, PTL DEF ClientSpec

\* A view that says "succeeded" is complete, and a poll sent after a stream's
\* "done" frame finds the job as the frame left it (_Job.view, stream_job).
THEOREM CompleteViews == ClientSpec => []ViewsAreComplete
<1>1. TypeOK /\ IInv /\ OutcomeInv => \A i \in Jobs : Settled(i) => FullRecord(i)
  BY SettledRecord
<1>2. (\A i \in Jobs : Settled(i) => FullRecord(i)) /\ PollInv /\ ViewInv => ViewsAreComplete
  <2> SUFFICES ASSUME \A i \in Jobs : Settled(i) => FullRecord(i), PollInv, ViewInv,
                      NEW p \in Pollers
               PROVE  LET v == answer[p].latest IN
                        /\ v.state = "succeeded" =>
                              v.result /\ v.events = events[v.job] /\ v.error = "none"
                        /\ told[p] => /\ v.state \in Terminal
                                      /\ v.events = events[v.job]
                                      /\ v.result <=> v.state = "succeeded"
                                      /\ v.error = "none" <=> v.state = "succeeded"
    BY DEF ViewsAreComplete
  <2> DEFINE v == answer[p].latest
  <2>1. ViewOK(p) /\ StillTrue(v)
    BY DEF ViewInv, PollInv
  <2>2. v.state = "succeeded" => v.job \in Jobs /\ state[v.job] = "succeeded"
    BY <2>1 DEF ViewOK, StillTrue, Onward, Terminal, Jobs, NoJob
  <2>3. v.state = "succeeded" \/ told[p] => v.job \in Jobs /\ FullRecord(v.job)
    BY <2>1, <2>2 DEF ViewOK, Settled
  <2>4. QED
    BY <2>1, <2>2, <2>3 DEF ViewOK, FullRecord
<1>3. QED
  BY <1>1, <1>2, JobsInvariant, PollInvariant, ViewInvariant, PTL

\* The clients' state is always well-typed.
THEOREM ClientTypeCorrect == ClientSpec => []ClientTypeOK
<1>1. StreamInv /\ PollInv /\ ViewInv => ClientTypeOK
  BY DEF StreamInv, StreamTypes, PollInv, ViewInv, ClientTypeOK, StreamTypeOK
<1>2. QED
  BY <1>1, StreamInvariant, PollInvariant, ViewInvariant, PTL
=============================================================================
