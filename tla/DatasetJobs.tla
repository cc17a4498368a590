----------------------------- MODULE DatasetJobs -----------------------------
(***************************************************************************)
(* What the job manager promises its clients, with no loop, no executor    *)
(* and no lock in sight: every job goes once through its life cycle, the   *)
(* ingests of one dataset run one at a time in the order they were         *)
(* submitted, and a dataset becomes visible only through an ingest that    *)
(* then succeeds.  JobManager implements this specification.               *)
(***************************************************************************)
EXTENDS Naturals

CONSTANTS MaxJobs, Datasets, EmptyId

Jobs == 1..MaxJobs
NoJob == 0
Ids == Datasets \cup {EmptyId}
Terminal == {"succeeded", "failed", "cancelled"}

VARIABLES submitted, kind, dataset, phase, requested, published

vars == <<submitted, kind, dataset, phase, requested, published>>

Init ==
    /\ submitted = 0
    /\ kind = [j \in Jobs |-> "ingest"]
    /\ dataset = [j \in Jobs |-> EmptyId]
    /\ phase = [j \in Jobs |-> "absent"]
    /\ requested = [j \in Jobs |-> FALSE]
    /\ published = [d \in Ids |-> NoJob]

Submit(j, k, d) ==
    /\ j = submitted + 1
    /\ k = "query" => published[d] # NoJob
    /\ submitted' = j
    /\ kind' = [kind EXCEPT ![j] = k]
    /\ dataset' = [dataset EXCEPT ![j] = d]
    /\ phase' = [phase EXCEPT ![j] = "queued"]
    /\ UNCHANGED <<requested, published>>

RequestCancel(j) ==
    /\ phase[j] \in {"queued", "running"}
    /\ requested' = [requested EXCEPT ![j] = TRUE]
    /\ UNCHANGED <<submitted, kind, dataset, phase, published>>

\* The ingests j must wait for.  Ingests whose dataset has the empty id wait
\* for nobody: each has a lock of its own.
Before(j) ==
    {i \in 1..(j - 1) : /\ kind[i] = "ingest" /\ kind[j] = "ingest"
                        /\ dataset[i] = dataset[j] /\ dataset[j] # EmptyId}

Begin(j) ==
    /\ phase[j] = "queued"
    /\ \A i \in Before(j) : phase[i] \in Terminal
    /\ phase' = [phase EXCEPT ![j] = "running"]
    /\ UNCHANGED <<submitted, kind, dataset, requested, published>>

Publish(j) ==
    /\ phase[j] = "running" /\ kind[j] = "ingest"
    /\ published' = [published EXCEPT ![dataset[j]] = j]
    /\ UNCHANGED <<submitted, kind, dataset, phase, requested>>

Succeed(j) ==
    /\ phase[j] = "running"
    /\ kind[j] = "ingest" => published[dataset[j]] = j
    /\ phase' = [phase EXCEPT ![j] = "succeeded"]
    /\ UNCHANGED <<submitted, kind, dataset, requested, published>>

\* A job that fails, or that stops on request, has published nothing.
End(j, p) ==
    /\ phase[j] = "running"
    /\ published[dataset[j]] # j
    /\ p = "cancelled" => requested[j]
    /\ phase' = [phase EXCEPT ![j] = p]
    /\ UNCHANGED <<submitted, kind, dataset, requested, published>>

Proceed(j) ==
    Begin(j) \/ Publish(j) \/ Succeed(j) \/ \E p \in {"failed", "cancelled"} : End(j, p)

Next ==
    \E j \in Jobs :
        \/ \E k \in {"ingest", "query"}, d \in Ids : Submit(j, k, d)
        \/ RequestCancel(j)
        \/ Proceed(j)

Spec == Init /\ [][Next]_vars

\* Every job that may proceed does.
FairSpec == Spec /\ \A j \in Jobs : WF_vars(Proceed(j))
=============================================================================
