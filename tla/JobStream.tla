------------------------------ MODULE JobStream ------------------------------
(***************************************************************************)
(* The event streams of the job layer: JobManager with the SSE readers of  *)
(* stream_job.  A reader is an asynchronous generator on the event loop.   *)
(* It subscribes, replays the history, then follows the live queue until   *)
(* the terminal sentinel, and ends with the "done" frame.  Each yield      *)
(* suspends it, so that any callback of the loop may run in between; its   *)
(* client may disconnect at each of them.                                  *)
(***************************************************************************)
EXTENDS JobManager

CONSTANT Streams      \* the streams clients open, one generator each

VARIABLES
    subscribers,      \* job -> the streams whose queues its events go to
    queue,            \* stream -> its queue of ticks
    source,           \* stream -> the job it follows
    phase,            \* stream -> where its generator is suspended
    history,          \* stream -> what is left of the snapshot to yield
    last,             \* stream -> the highest sequence number in the snapshot
    doneAlready,      \* stream -> was the job done at the snapshot
    sent,             \* stream -> the stages its client has received
    final             \* stream -> the job state its "done" frame carried

streamVars == <<subscribers, queue, source, phase, history, last, doneAlready, sent, final>>

Phases == {"unopened", "history", "live", "leaving", "left", "closed"}
Tick(seq, stage) == [seq |-> seq, stage |-> stage]
Sentinel == Tick(0, "enter")
Ticks == [seq : Nat, stage : Positions]

StreamTypeOK ==
    /\ subscribers \in [Jobs -> SUBSET Streams]
    /\ queue \in [Streams -> Seq(Ticks)]
    /\ source \in [Streams -> JobOrNone]
    /\ phase \in [Streams -> Phases]
    /\ history \in [Streams -> Seq(Stages)]
    /\ last \in [Streams -> Nat]
    /\ doneAlready \in [Streams -> BOOLEAN]
    /\ sent \in [Streams -> Seq(Stages)]
    /\ final \in [Streams -> States]

StreamInit ==
    /\ Init
    /\ subscribers = [j \in Jobs |-> {}]
    /\ queue = [s \in Streams |-> <<>>]
    /\ source = [s \in Streams |-> NoJob]
    /\ phase = [s \in Streams |-> "unopened"]
    /\ history = [s \in Streams |-> <<>>]
    /\ last = [s \in Streams |-> 0]
    /\ doneAlready = [s \in Streams |-> FALSE]
    /\ sent = [s \in Streams |-> <<>>]
    /\ final = [s \in Streams |-> "absent"]

-----------------------------------------------------------------------------
\* A tick, or the sentinel, goes to every subscriber of the job.
Broadcast(j, tick) ==
    /\ queue' = [s \in Streams |-> IF s \in subscribers[j] THEN Append(queue[s], tick)
                                                           ELSE queue[s]]
    /\ UNCHANGED <<subscribers, source, phase, history, last, doneAlready, sent, final>>

\* _publish: the event's sequence number is its position in the history.
PublishToAll(j) ==
    /\ Publish(j)
    /\ Broadcast(j, Tick(Len(events[j]) + 1, Head(ready).stage))

FinishForAll(j) == Finish(j) /\ Broadcast(j, Sentinel)

\* Mutant of Open: it does not notice that the job is over already.
OpenAsLive(s, j) ==
    /\ loop = Idle
    /\ phase[s] = "unopened"
    /\ j <= submitted
    /\ subscribers' = [subscribers EXCEPT ![j] = @ \cup {s}]
    /\ source' = [source EXCEPT ![s] = j]
    /\ history' = [history EXCEPT ![s] = events[j]]
    /\ last' = [last EXCEPT ![s] = Len(events[j])]
    /\ phase' = [phase EXCEPT ![s] = "history"]
    /\ UNCHANGED <<vars, queue, doneAlready, sent, final>>

\* Subscription and snapshot, with no suspension between them.
Open(s, j) ==
    /\ loop = Idle
    /\ phase[s] = "unopened"
    /\ j <= submitted
    /\ subscribers' = [subscribers EXCEPT ![j] = @ \cup {s}]
    /\ source' = [source EXCEPT ![s] = j]
    /\ history' = [history EXCEPT ![s] = events[j]]
    /\ last' = [last EXCEPT ![s] = Len(events[j])]
    /\ doneAlready' = [doneAlready EXCEPT ![s] = done[j]]
    /\ phase' = [phase EXCEPT ![s] = "history"]
    /\ UNCHANGED <<vars, queue, sent, final>>

Yield(s, stage) == sent' = [sent EXCEPT ![s] = Append(@, stage)]

ReplayHistory(s) ==
    /\ loop = Idle
    /\ phase[s] = "history" /\ history[s] # <<>>
    /\ Yield(s, Head(history[s]))
    /\ history' = [history EXCEPT ![s] = Tail(@)]
    /\ UNCHANGED <<vars, subscribers, queue, source, phase, last, doneAlready, final>>

\* Mutant of Close: the generator stays subscribed.
CloseSubscribed(s) ==
    /\ phase' = [phase EXCEPT ![s] = "closed"]
    /\ final' = [final EXCEPT ![s] = state[source[s]]]
    /\ UNCHANGED subscribers

\* Mutant of Close: the "done" frame carries the code of the job's error.
CloseWithCode(s) ==
    /\ subscribers' = [subscribers EXCEPT ![source[s]] = @ \ {s}]
    /\ phase' = [phase EXCEPT ![s] = "closed"]
    /\ final' = [final EXCEPT ![s] = error[source[s]]]

\* The generator returns: its finally clause unsubscribes it, and stream_job
\* sends the job's view as the "done" frame.
Close(s) ==
    /\ subscribers' = [subscribers EXCEPT ![source[s]] = @ \ {s}]
    /\ phase' = [phase EXCEPT ![s] = "closed"]
    /\ final' = [final EXCEPT ![s] = state[source[s]]]

\* Mutant of EndHistory: the queue is created when the live part begins.
EndHistoryFreshQueue(s) ==
    /\ loop = Idle
    /\ phase[s] = "history" /\ history[s] = <<>>
    /\ \/ doneAlready[s] /\ Close(s) /\ UNCHANGED queue
       \/ /\ ~doneAlready[s]
          /\ phase' = [phase EXCEPT ![s] = "live"]
          /\ queue' = [queue EXCEPT ![s] = <<>>]
          /\ UNCHANGED <<subscribers, final>>
    /\ UNCHANGED <<vars, source, history, last, doneAlready, sent>>

\* Mutant of EndHistory: it asks whether the job is done by now.
EndHistoryIfDone(s) ==
    /\ loop = Idle
    /\ phase[s] = "history" /\ history[s] = <<>>
    /\ \/ done[source[s]] /\ Close(s)
       \/ /\ ~done[source[s]]
          /\ phase' = [phase EXCEPT ![s] = "live"]
          /\ UNCHANGED <<subscribers, final>>
    /\ UNCHANGED <<vars, queue, source, history, last, doneAlready, sent>>

EndHistory(s) ==
    /\ loop = Idle
    /\ phase[s] = "history" /\ history[s] = <<>>
    /\ \/ doneAlready[s] /\ Close(s)
       \/ /\ ~doneAlready[s]
          /\ phase' = [phase EXCEPT ![s] = "live"]
          /\ UNCHANGED <<subscribers, final>>
    /\ UNCHANGED <<vars, queue, source, history, last, doneAlready, sent>>

\* One turn of the live loop: the sentinel ends it, an event the snapshot
\* already held is dropped, any other event is sent.
FollowLive(s) ==
    /\ loop = Idle
    /\ phase[s] = "live" /\ queue[s] # <<>>
    /\ queue' = [queue EXCEPT ![s] = Tail(@)]
    /\ LET tick == Head(queue[s]) IN
         \/ tick = Sentinel /\ Close(s) /\ UNCHANGED sent
         \/ /\ tick # Sentinel
            /\ IF tick.seq > last[s] THEN Yield(s, tick.stage) ELSE UNCHANGED sent
            /\ UNCHANGED <<subscribers, phase, final>>
    /\ UNCHANGED <<vars, source, history, last, doneAlready>>

\* The client goes away.  The suspended generator is finalised some time
\* later, by the loop's hook for abandoned generators.
Disconnect(s) ==
    /\ phase[s] \in {"history", "live"}
    /\ phase' = [phase EXCEPT ![s] = "leaving"]
    /\ UNCHANGED <<vars, subscribers, queue, source, history, last, doneAlready, sent, final>>

Finalise(s) ==
    /\ loop = Idle
    /\ phase[s] = "leaving"
    /\ subscribers' = [subscribers EXCEPT ![source[s]] = @ \ {s}]
    /\ phase' = [phase EXCEPT ![s] = "left"]
    /\ UNCHANGED <<vars, queue, source, history, last, doneAlready, sent, final>>

-----------------------------------------------------------------------------
\* The callbacks that put nothing into the streams' queues.
QuietLoop(j) == Loop(j) /\ UNCHANGED <<events, done>> /\ UNCHANGED streamVars

StreamLoop(j) == PublishToAll(j) \/ FinishForAll(j) \/ QuietLoop(j)

Reader(s) == ReplayHistory(s) \/ EndHistory(s) \/ FollowLive(s) \/ Finalise(s)

StreamNext ==
    \/ Submission /\ UNCHANGED streamVars
    \/ \E j \in Jobs : \/ StreamLoop(j)
                       \/ (Cancel(j) \/ Dispatch(j) \/ Worker(j)) /\ UNCHANGED streamVars
    \/ \E s \in Streams : \/ \E j \in Jobs : Open(s, j)
                          \/ Reader(s)
                          \/ Disconnect(s)

-----------------------------------------------------------------------------
(* Properties. *)

\* What a client has received is at any time a prefix of the job's history:
\* no event is lost, repeated or reordered on the way, wherever the stream
\* was opened relative to the publications.
ReceivedIsPrefix ==
    \A s \in Streams : source[s] # NoJob =>
        /\ Len(sent[s]) <= Len(events[source[s]])
        /\ sent[s] = SubSeq(events[source[s]], 1, Len(sent[s]))

\* A stream that ends by itself has delivered the whole history of a job
\* that is over, and its "done" frame carries the terminal state.
ClosedIsComplete ==
    \A s \in Streams : phase[s] = "closed" =>
        /\ sent[s] = events[source[s]]
        /\ final[s] \in Terminal
        /\ final[s] = state[source[s]]

\* Only generators that may still read their queue are subscribed: a stream
\* that ended or was abandoned gives its queue back.
OnlyReadersSubscribed ==
    \A j \in Jobs : subscribers[j] =
        {s \in Streams : source[s] = j /\ phase[s] \in {"history", "live", "leaving"}}

\* Every stream that is opened ends, unless its client leaves first.
StreamsEnd == \A s \in Streams : phase[s] = "history" ~> phase[s] \in {"closed", "left"}
=============================================================================
