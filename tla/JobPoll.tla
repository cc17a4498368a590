------------------------------- MODULE JobPoll -------------------------------
(***************************************************************************)
(* Polling: JobManager with the clients of GET /jobs/{id}.  get_job is a   *)
(* synchronous handler, so it runs in a thread of its own while the loop   *)
(* may be in the middle of ending the job.  _Job.view reads the record's   *)
(* fields one after the other, and each read sees the latest assignment.   *)
(***************************************************************************)
EXTENDS JobManager

CONSTANT Pollers   \* the clients that poll

VARIABLES
    reading,       \* poller -> the field its thread reads next
    view,          \* poller -> the view under construction
    answer         \* poller -> the last two complete views it received

pollVars == <<reading, view, answer>>

NoView == [job |-> NoJob, state |-> "absent", events |-> <<>>, error |-> "none", result |-> FALSE]
Views == [job : JobOrNone, state : States, events : Seq(Stages),
          error : Outcomes, result : BOOLEAN]

PollTypeOK ==
    /\ reading \in [Pollers -> {"nothing", "events", "error", "result"}]
    /\ view \in [Pollers -> Views]
    /\ answer \in [Pollers -> [before : Views, latest : Views]]

PollInit ==
    /\ Init
    /\ reading = [p \in Pollers |-> "nothing"]
    /\ view = [p \in Pollers |-> NoView]
    /\ answer = [p \in Pollers |-> [before |-> NoView, latest |-> NoView]]

\* The first read is the state.  A poller polls one job throughout.
ReadState(p, j) ==
    /\ reading[p] = "nothing"
    /\ j <= submitted
    /\ answer[p].latest.job \in {NoJob, j}
    /\ view' = [view EXCEPT ![p] = [NoView EXCEPT !.job = j, !.state = state[j]]]
    /\ reading' = [reading EXCEPT ![p] = "events"]
    /\ UNCHANGED <<vars, answer>>

ReadEvents(p) ==
    /\ reading[p] = "events"
    /\ view' = [view EXCEPT ![p].events = events[view[p].job]]
    /\ reading' = [reading EXCEPT ![p] = "error"]
    /\ UNCHANGED <<vars, answer>>

ReadError(p) ==
    /\ reading[p] = "error"
    /\ view' = [view EXCEPT ![p].error = error[view[p].job]]
    /\ reading' = [reading EXCEPT ![p] = "result"]
    /\ UNCHANGED <<vars, answer>>

\* Mutant of ReadResult: the state is read last.
ReadResultThenState(p) ==
    /\ reading[p] = "result"
    /\ answer' = [answer EXCEPT ![p] =
                     [before |-> @.latest,
                      latest |-> [view[p] EXCEPT !.result = result[view[p].job],
                                                 !.state = state[view[p].job]]]]
    /\ view' = [view EXCEPT ![p] = NoView]
    /\ reading' = [reading EXCEPT ![p] = "nothing"]
    /\ UNCHANGED vars

\* The last read completes the view; the handler returns it.
ReadResult(p) ==
    /\ reading[p] = "result"
    /\ answer' = [answer EXCEPT ![p] =
                     [before |-> @.latest,
                      latest |-> [view[p] EXCEPT !.result = result[view[p].job]]]]
    /\ view' = [view EXCEPT ![p] = NoView]
    /\ reading' = [reading EXCEPT ![p] = "nothing"]
    /\ UNCHANGED vars

Poll(p) == (\E j \in Jobs : ReadState(p, j)) \/ ReadEvents(p) \/ ReadError(p) \/ ReadResult(p)

-----------------------------------------------------------------------------
(* Properties. *)

\* How far a job is that is in state s.
Rank(s) == CASE s = "absent" -> 0 [] s = "queued" -> 1 [] s = "running" -> 2 [] OTHER -> 3

\* Successive polls of one client never go back: the state advances, and what
\* was once reported as history, error or result stays reported.
PollsMoveForward ==
    \A p \in Pollers : LET b == answer[p].before v == answer[p].latest IN
        b.job # NoJob =>
            /\ Rank(b.state) <= Rank(v.state)
            /\ b.state \in Terminal => v.state = b.state
            /\ b.events = SubSeq(v.events, 1, Len(b.events))
            /\ b.error # "none" => v.error = b.error
            /\ b.result => v.result
=============================================================================
