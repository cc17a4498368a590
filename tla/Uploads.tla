------------------------------- MODULE Uploads -------------------------------
(***************************************************************************)
(* The upload path: JobManager with the handlers that submit ingests and   *)
(* the file each ingest reads.  create_dataset runs on the event loop      *)
(* without suspending itself once it has the body: it looks at the free    *)
(* space, writes .uploads/<digest>.csv and submits the ingest, and no      *)
(* other callback runs in between.  Worker threads do run: writing opens   *)
(* the file, which empties it, and then fills it, while the worker of an   *)
(* earlier upload of the same bytes may be reading it.                     *)
(*                                                                         *)
(* A content stands for its digest, and it names the file.  Every upload   *)
(* and every table takes one unit of space.                                *)
(***************************************************************************)
EXTENDS JobManager

CONSTANTS
    Contents,     \* the contents clients upload
    SampleFiles,  \* the bundled files, which nobody writes
    IdOf,         \* dataset_id_for: name -> dataset id
    Uploads,      \* the uploads clients may send: [content, name, header]
    Samples,      \* the requests to load a sample, of the same form
    MaxRequests,  \* bound: how many requests the handlers admit
    Capacities,   \* the sizes the volume may have, in units of space
    Floor         \* min_free_bytes, in units

VARIABLES
    volume,       \* the size of the volume
    file,         \* path -> the state of the uploaded file
    handler,      \* the upload being handled, and how far its handler is
    requests,     \* how many requests were answered or are being answered
    origin,       \* job -> the request it was submitted for
    torn,         \* jobs that read their file while it was not whole
    cut,          \* jobs whose data came from such a read
    rewriters,    \* history: job -> the uploads that emptied its file
    crowded,      \* history: jobs that were live together with another upload
    starved,      \* history: jobs that found no space for their table
    replies       \* history: the answers, [request, job, reused, stale]

uploadVars == <<volume, file, handler, requests, origin, torn, cut, rewriters, crowded, starved, replies>>
allVars == <<vars, uploadVars>>

NoName == "none"
NoUpload == [content |-> NoName, name |-> NoName, header |-> NoName]
AllRequests == Uploads \cup Samples

\* name or upload_name or "ds_<digest>".
NameOf(u) == IF u.name = NoName THEN u.content ELSE u.name

\* Mutant of Key: an upload is known by its name alone.
KeyOfName(u) == IF u.header # NoName THEN u.header ELSE <<NameOf(u), NoName>>

\* The idempotency key: the client's header, else name and digest.
Key(u) == IF u.header # NoName THEN u.header ELSE <<NameOf(u), u.content>>

ASSUME UploadsAssumption ==
    /\ \A u \in AllRequests : <<Key(u), IdOf[NameOf(u)]>> \in Requests
    /\ \A u \in Uploads : u.content \in Contents
    /\ \A u \in Samples : u.content \in SampleFiles
    /\ Contents \cap SampleFiles = {}
    \* a key of a client's own is not one that is derived
    /\ \A u, v \in AllRequests : u.header # NoName => u.header # <<NameOf(v), v.content>>
    /\ "ingest_failed" \in ErrorCodes["ingest"]
    \* a pipeline that has loaded its table does not load it again
    /\ \A s \in Stages \ {"sniffing", "loading"} :
          NextStages["ingest"][s] \cap {"sniffing", "loading"} = {}
    /\ MaxRequests \in Nat /\ Capacities \subseteq Nat /\ Floor \in Nat

\* The paths of files, also those an upload could be stored under by its name.
Paths == Contents \cup SampleFiles \cup DOMAIN IdOf

\* Mutant of FileOf: the file is named for the dataset.
FileOfName(u) == NameOf(u)

\* .uploads/<digest>.csv, or the sample's own path.
FileOf(u) == u.content

\* What create_dataset does once the upload is admitted, in order.
HandlerSteps == <<"open", "write", "submit">>

NotHandling == [upload |-> NoUpload, step |-> 0]
HandlerAt(step) == handler.step > 0 /\ HandlerSteps[handler.step] = step

\* Mutant of Advanced: the handler never returns.
AdvancedOnly == [handler EXCEPT !.step = @ + 1]

Advanced == IF handler.step = Len(HandlerSteps) THEN NotHandling
            ELSE [handler EXCEPT !.step = @ + 1]

UploadTypeOK ==
    /\ volume \in Capacities
    /\ file \in [Paths -> {"absent", "cut", "whole"}]
    /\ handler \in [upload : Uploads \cup {NoUpload}, step : 0..Len(HandlerSteps)]
    /\ requests \in 0..MaxRequests
    /\ origin \in [Jobs -> AllRequests \cup {NoUpload}]
    /\ torn \subseteq Jobs /\ cut \subseteq Jobs
    /\ rewriters \in [Jobs -> SUBSET Uploads]
    /\ crowded \subseteq Jobs /\ starved \subseteq Jobs
    /\ replies \subseteq [request : AllRequests, job : Jobs, reused : BOOLEAN, stale : BOOLEAN]

UploadInit ==
    /\ Init
    /\ volume \in Capacities
    /\ file = [p \in Paths |-> IF p \in SampleFiles THEN "whole" ELSE "absent"]
    /\ handler = NotHandling
    /\ requests = 0
    /\ origin = [j \in Jobs |-> NoUpload]
    /\ torn = {} /\ cut = {}
    /\ rewriters = [j \in Jobs |-> {}]
    /\ crowded = {} /\ starved = {}
    /\ replies = {}

-----------------------------------------------------------------------------
(* The volume. *)

Live == {j \in Jobs : state[j] \in {"queued", "running"}}

\* The stages during which a worker reads its file: the dialect, the table and
\* the order of the dates each come from a read of their own.
ReadingStages == {"sniffing", "loading", "resolving_dates"}

\* The staging files: tables that are loaded and not yet promoted or removed.
Staged == {j \in Working : kind[j] = "ingest" /\ at[j] \in Stages \ {"sniffing", "loading"}}

\* The promoted files.
Promoted == {dataset[j] : j \in {j \in Jobs : outcome[j] = "succeeded"}}

Used == Cardinality({p \in Paths \ SampleFiles : file[p] = "whole"}) + Cardinality(Staged) + Cardinality(Promoted)
Free == IF Used < volume THEN volume - Used ELSE 0

-----------------------------------------------------------------------------
(* The handlers. *)

\* Mutant of Fits: the upload's own size is forgotten.
FitsForgettingBody == Free >= Floor

\* free - len(body) >= min_free_bytes.
Fits == Free >= 1 + Floor

\* The bounds leave room for the request, and for its job if it needs one.
Serves(u) ==
    /\ loop = Idle /\ handler = NotHandling
    /\ requests < MaxRequests
    /\ Reusable(Key(u)) \/ submitted < MaxJobs

\* An upload the guards let pass; one they refuse changes nothing.
Admit(u) ==
    /\ Serves(u)
    /\ Fits
    /\ handler' = [upload |-> u, step |-> 1]
    /\ requests' = requests + 1
    /\ crowded' = crowded \cup Live
    /\ UNCHANGED <<vars, volume, file, origin, torn, cut, rewriters, starved, replies>>

\* The jobs that ingest the file at a path, and those reading it just now.
Ingesting(p) == {j \in Live : FileOf(origin[j]) = p}
Reading(p) == {j \in Ingesting(p) \cap Working : at[j] \in ReadingStages}

\* write_bytes opens the file, which empties it.
OpenFile ==
    /\ HandlerAt("open")
    /\ LET p == FileOf(handler.upload) IN
         /\ file' = [file EXCEPT ![p] = "cut"]
         /\ torn' = torn \cup Reading(p)
         /\ rewriters' = [j \in Jobs |-> rewriters[j] \cup
                             IF j \in Ingesting(p) THEN {handler.upload} ELSE {}]
    /\ handler' = Advanced
    /\ UNCHANGED <<vars, volume, requests, origin, cut, crowded, starved, replies>>

WriteFile ==
    /\ HandlerAt("write")
    /\ Free > 0
    /\ file' = [file EXCEPT ![FileOf(handler.upload)] = "whole"]
    /\ handler' = Advanced
    /\ UNCHANGED <<vars, volume, requests, origin, torn, cut, rewriters, crowded, starved, replies>>

\* The volume filled up since the guard: the handler ends with an error.
WriteFails ==
    /\ HandlerAt("write")
    /\ Free = 0
    /\ handler' = NotHandling
    /\ UNCHANGED <<vars, volume, file, requests, origin, torn, cut, rewriters, crowded, starved, replies>>

\* The answer names job j.  It is stale when j is over and its dataset serves
\* other content by now.
Reply(u, j, reused) ==
    replies' = replies \cup
        {[request |-> u, job |-> j, reused |-> reused,
          stale |-> /\ state[j] = "succeeded"
                    /\ store[dataset[j]] # NoJob
                    /\ origin[store[dataset[j]]].content # origin[j].content]}

\* submit_ingest, called by either handler: a new job, or the key's old one.
SubmitRequest(u) ==
    \/ /\ Reusable(Key(u))
       /\ Reply(u, idempotency[Key(u)], TRUE)
       /\ UNCHANGED <<vars, origin, crowded>>
    \/ /\ \E j \in Jobs :
            /\ SubmitIngest(j, Key(u), IdOf[NameOf(u)])
            /\ origin' = [origin EXCEPT ![j] = u]
            /\ crowded' = IF Live = {} THEN crowded ELSE crowded \cup Live \cup {j}
            /\ Reply(u, j, FALSE)

SubmitUpload ==
    /\ HandlerAt("submit")
    /\ SubmitRequest(handler.upload)
    /\ handler' = Advanced
    /\ UNCHANGED <<volume, file, requests, torn, cut, rewriters, starved>>

\* load_sample: the same submission over a constant path.
LoadSample(u) ==
    /\ Serves(u)
    /\ requests' = requests + 1
    /\ SubmitRequest(u)
    /\ UNCHANGED <<volume, file, handler, torn, cut, rewriters, starved>>

-----------------------------------------------------------------------------
(* The workers. *)

\* A stage ends.  What it read may be cut when the file was not whole all the
\* time; the next stage's read begins.
EndStage(j, s) ==
    /\ PassBoundary(j, s)
    /\ at[j] = "loading" => Free > 0
    /\ \/ UNCHANGED cut
       \/ j \in torn /\ cut' = cut \cup {j}
    /\ torn' = IF s \in ReadingStages /\ file[FileOf(origin[j])] # "whole" THEN torn \cup {j}
               ELSE torn \ {j}
    /\ UNCHANGED <<volume, file, handler, requests, origin, rewriters, crowded, starved, replies>>

\* No space is left for the table: the load raises.
Starve(j) ==
    /\ at[j] = "loading" /\ Free = 0
    /\ EndWork(j, "ingest_failed")
    /\ starved' = starved \cup {j}
    /\ UNCHANGED <<volume, file, handler, requests, origin, torn, cut, rewriters, crowded, replies>>

\* The work ends.  An ingest that is cancelled leaves what a failed one does,
\* so clients do not cancel here.
EndOfWork(j) == (WorkFails(j) \/ WorkReturns(j)) /\ UNCHANGED uploadVars

-----------------------------------------------------------------------------
Handler ==
    \/ \E u \in Uploads : Admit(u)
    \/ OpenFile \/ WriteFile \/ WriteFails \/ SubmitUpload
    \/ \E u \in Samples : LoadSample(u)

\* The loop serves its callbacks while no handler is in the middle of one.
UploadLoop(j) == handler = NotHandling /\ Loop(j) /\ UNCHANGED uploadVars

UploadWorker(j) == (\E s \in Stages : EndStage(j, s)) \/ Starve(j) \/ EndOfWork(j)

UploadNext ==
    \/ Handler
    \/ \E j \in Jobs : \/ UploadLoop(j)
                       \/ Dispatch(j) /\ UNCHANGED uploadVars
                       \/ UploadWorker(j)

UploadSpec == UploadInit /\ [][UploadNext]_allVars

-----------------------------------------------------------------------------
(* Properties. *)

\* A dataset is built from less than its upload only when another upload of
\* the very same bytes emptied the file while the ingest was on its way: never
\* because of an upload of something else, or of a write that failed.
CutOnlyByRewrite ==
    \A j \in cut : /\ rewriters[j] # {}
                   /\ \A u \in rewriters[j] : u.content = origin[j].content

\* The answer to an upload names a job that ingests this very content into
\* the dataset of this very name, new or reused, unless the client repeats an
\* idempotency key of its own for something else.
ReplyNamesContent ==
    \A r \in replies : r.request.header = NoName =>
        /\ origin[r.job].content = r.request.content
        /\ dataset[r.job] = IdOf[NameOf(r.request)]

\* An answer that names a finished ingest whose dataset serves other content
\* is given only after an ingest submitted later replaced it.  Ingests whose
\* dataset has the empty id are in no order.
StaleOnlyAfterReplacement ==
    \A r \in replies : r.stale /\ dataset[r.job] # EmptyId =>
        \E k \in Jobs : k > r.job /\ dataset[k] = dataset[r.job] /\ state[k] = "succeeded"

\* With a floor that holds one table, an upload the guard admits finds the
\* space for its table, unless other uploads are handled at the same time:
\* the guard does not see the tables they are going to write.  A sample is
\* loaded without asking the guard.
LoneIngestFits ==
    Floor > 0 => \A j \in starved : j \in crowded \/ origin[j] \in Samples
=============================================================================
