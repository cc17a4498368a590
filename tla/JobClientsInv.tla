---------------------------- MODULE JobClientsInv ----------------------------
(***************************************************************************)
(* The inductive invariants behind the properties of JobClients: what a    *)
(* stream's queue and its replayed history have to do with the job's       *)
(* record, and how far the views of a poller may be behind it.             *)
(***************************************************************************)
EXTENDS JobClients

\* s is how t begins.
Begins(s, t) == Len(s) <= Len(t) /\ \A n \in 1..Len(s) : s[n] = t[n]

-----------------------------------------------------------------------------
(* Streams. *)

\* A stream follows a job from the moment it is opened.
StreamTypes ==
    /\ StreamTypeOK
    /\ \A s \in Streams : phase[s] = "unopened" <=> source[s] = NoJob

\* How many of the job's events the stream has sent or has still to replay.
Covered(s) == Len(sent[s]) + Len(history[s])

\* History h is what comes after the first k of the events e.
Replays(h, e, k) == \A n \in 1..Len(h) : h[n] = e[k + n]

\* Queue q holds the events of e after the first c, one tick each and in order,
\* and then the sentinel if the job is done.
Follows(q, e, c, isDone) ==
    /\ Len(q) = Len(e) - c + (IF isDone THEN 1 ELSE 0)
    /\ \A n \in 1..Len(q) :
          q[n] = IF c + n <= Len(e) THEN Tick(c + n, e[c + n]) ELSE Sentinel

\* Stream s, which follows job j, has still to send what it replays and then
\* what its queue holds; together they are the rest of the job's history.
ReaderInv(s, j) ==
    /\ Covered(s) <= Len(events[j]) /\ last[s] <= Covered(s)
    /\ Replays(history[s], events[j], Len(sent[s]))
    /\ doneAlready[s] => done[j] /\ Covered(s) = Len(events[j])
    /\ ~doneAlready[s] => Follows(queue[s], events[j], Covered(s), done[j])

StreamOK(s) == LET j == source[s] IN
    /\ phase[s] = "unopened" => queue[s] = <<>> /\ sent[s] = <<>>
    /\ phase[s] # "unopened" => Begins(sent[s], events[j])
    /\ phase[s] \in {"history", "live"} => ReaderInv(s, j)
    /\ phase[s] = "live" => history[s] = <<>> /\ ~doneAlready[s]
    /\ phase[s] = "closed" =>
          /\ done[j] /\ Len(sent[s]) = Len(events[j])
          /\ final[s] = state[j]

StreamInv == StreamTypes /\ OnlyReadersSubscribed /\ \A s \in Streams : StreamOK(s)

-----------------------------------------------------------------------------
(* Pollers. *)

\* A job reported in state s may later be reported in state t.
Onward(s, t) == Rank(s) <= Rank(t) /\ (s \in Terminal => t = s)

\* What view v reports of its job still holds of the job's record.
StillTrue(v) ==
    v.job # NoJob =>
        /\ Onward(v.state, state[v.job])
        /\ Begins(v.events, events[v.job])
        /\ v.error # "none" => error[v.job] = v.error
        /\ v.result => result[v.job]

\* The fields poller p has read so far are not behind its last answer.
Overtakes(p) == LET a == answer[p].latest v == view[p] IN
    /\ v.job \in Jobs /\ a.job \in {NoJob, v.job}
    /\ a.job # NoJob =>
          /\ Onward(a.state, v.state)
          /\ reading[p] \in {"error", "result"} => Begins(a.events, v.events)
          /\ reading[p] = "result" /\ a.error # "none" => v.error = a.error

\* View b may be followed by view v.
Precedes(b, v) ==
    b.job # NoJob =>
        /\ Onward(b.state, v.state)
        /\ Begins(b.events, v.events)
        /\ b.error # "none" => v.error = b.error
        /\ b.result => v.result

PollInv ==
    /\ PollTypeOK
    /\ \A p \in Pollers :
          /\ StillTrue(view[p]) /\ StillTrue(answer[p].latest)
          /\ Precedes(answer[p].before, answer[p].latest)
          /\ reading[p] # "nothing" => Overtakes(p)
\* The job's outcome is known: it succeeded or it is done.  From then on its
\* record does not change.
Settled(j) == state[j] = "succeeded" \/ done[j]

\* Once a job's outcome is known its record says it in full.
FullRecord(j) ==
    /\ state[j] \in Terminal
    /\ result[j] <=> state[j] = "succeeded"
    /\ error[j] = "none" <=> state[j] = "succeeded"

\* What poller p reads, or was answered, of a job whose outcome was known when
\* the poll began is the job's final record.
ViewOK(p) == LET v == view[p] a == answer[p].latest IN
    /\ reading[p] # "nothing" /\ toldBefore[p] => done[v.job] /\ v.state = state[v.job]
    /\ reading[p] # "nothing" /\ (toldBefore[p] \/ v.state = "succeeded") =>
          /\ reading[p] \in {"error", "result"} => v.events = events[v.job]
          /\ reading[p] = "result" => v.error = error[v.job]
    /\ told[p] => a.job \in Jobs /\ done[a.job] /\ a.state = state[a.job]
    /\ told[p] \/ a.state = "succeeded" =>
          /\ a.job \in Jobs
          /\ a.events = events[a.job] /\ a.error = error[a.job] /\ a.result = result[a.job]

ViewInv ==
    /\ toldBefore \in [Pollers -> BOOLEAN] /\ told \in [Pollers -> BOOLEAN]
    /\ \A p \in Pollers : ViewOK(p)
=============================================================================
