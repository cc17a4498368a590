----------------------------- MODULE JobClients -----------------------------
(***************************************************************************)
(* The clients of a job together: the stream readers of JobStream and the  *)
(* pollers of JobPoll watch the same jobs.  The page the program serves    *)
(* follows a job's stream and asks for the job once the stream says it is  *)
(* done, so what the two tell must fit together.                           *)
(***************************************************************************)
EXTENDS JobStream, JobPoll

CONSTANT MaxActive     \* bound: how many of the clients ever act

ASSUME ClientsAssumption == Streams \subseteq Nat /\ Streams \cap Pollers = {}

VARIABLES
    toldBefore,    \* history: poller -> did a "done" frame precede its poll
    told           \* history: poller -> the same for the poll it got answered

clientVars == <<vars, streamVars, pollVars, toldBefore, told>>

ClientTypeOK ==
    /\ StreamTypeOK /\ PollTypeOK
    /\ toldBefore \in [Pollers -> BOOLEAN] /\ told \in [Pollers -> BOOLEAN]

ClientInit ==
    /\ StreamInit /\ PollInit
    /\ toldBefore = [p \in Pollers |-> FALSE]
    /\ told = [p \in Pollers |-> FALSE]

\* Some client of the job has received its "done" frame.
DoneSeen(j) == \E s \in Streams : source[s] = j /\ phase[s] = "closed"

\* The clients that have opened a stream or polled.
Active == {s \in Streams : phase[s] # "unopened"}
              \cup {p \in Pollers : reading[p] # "nothing" \/ answer[p].latest # NoView}

PollStep(p) ==
    /\ Poll(p)
    /\ p \in Active \/ Cardinality(Active) < MaxActive
    /\ toldBefore' = [toldBefore EXCEPT ![p] =
                         IF reading[p] = "nothing" THEN DoneSeen(view'[p].job) ELSE @]
    /\ told' = [told EXCEPT ![p] = IF reading[p] = "result" THEN toldBefore[p] ELSE @]
    /\ UNCHANGED streamVars

\* Streams are numbered in the order in which they are opened.
StreamStep ==
    /\ StreamNext
    /\ \A s \in Streams : phase[s] = "unopened" /\ phase'[s] # "unopened" =>
           /\ Cardinality(Active) < MaxActive
           /\ \A t \in Streams : t < s => phase[t] # "unopened"
    /\ UNCHANGED <<pollVars, toldBefore, told>>

ClientNext == StreamStep \/ \E p \in Pollers : PollStep(p)

\* As in JobManager; the loop also resumes every generator that can go on.
\* A poller may stop at any time.
ClientSpec ==
    /\ ClientInit /\ [][ClientNext]_clientVars
    /\ WF_clientVars(\E j \in Jobs : StreamLoop(j) /\ UNCHANGED <<pollVars, toldBefore, told>>)
    /\ WF_clientVars(\E j \in Jobs : Dispatch(j)
                        /\ UNCHANGED <<streamVars, pollVars, toldBefore, told>>)
    /\ \A j \in Jobs : WF_clientVars(Worker(j)
                        /\ UNCHANGED <<streamVars, pollVars, toldBefore, told>>)
    /\ \A s \in Streams : WF_clientVars(Reader(s) /\ UNCHANGED <<pollVars, toldBefore, told>>)

-----------------------------------------------------------------------------
(* Properties. *)

\* A view that says "succeeded" has the result, the whole history and no error,
\* although its fields were read while the loop was ending the job; and a poll
\* sent after some stream's "done" frame finds the job as the frame left it:
\* over, its history whole, and its result or its shaped error in place.
ViewsAreComplete ==
    \A p \in Pollers : LET v == answer[p].latest IN
        /\ v.state = "succeeded" => v.result /\ v.events = events[v.job] /\ v.error = "none"
        /\ told[p] => /\ v.state \in Terminal
                      /\ v.events = events[v.job]
                      /\ v.result <=> v.state = "succeeded"
                      /\ v.error = "none" <=> v.state = "succeeded"
=============================================================================
