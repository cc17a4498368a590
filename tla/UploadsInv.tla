----------------------------- MODULE UploadsInv -----------------------------
(***************************************************************************)
(* The inductive invariant behind the properties of Uploads, next to that  *)
(* of JobManager: what the handler has checked and written, whose the      *)
(* files, the keys and the answers are, and the space that is left.        *)
(***************************************************************************)
EXTENDS Uploads, JobManagerInv

\* While a handler is in the middle of an upload the loop does nothing else,
\* and every live job was told of it.
HandlerInv ==
    /\ handler = NotHandling \/ handler \in [upload : Uploads, step : 1..3]
    /\ handler # NotHandling => loop = Idle /\ Live \subseteq crowded

\* The file of a live ingest is whole unless an upload emptied it since.
FilesInv ==
    /\ \A p \in SampleFiles : file[p] = "whole"
    /\ HandlerAt("submit") => file[FileOf(handler.upload)] = "whole"
    /\ \A j \in Live : file[FileOf(origin[j])] = "whole" \/ rewriters[j] # {}

\* Only uploads of the same content empty a job's file, and none reads a file
\* that is not whole unless one did.
RewriteInv ==
    /\ \A j \in Jobs : state[j] = "absent" => rewriters[j] = {}
    /\ \A j \in torn \cup cut : rewriters[j] # {}
    /\ \A j \in Jobs : \A u \in rewriters[j] : u.content = origin[j].content

\* A job ingests what its request says, and its key is that request's.
OriginInv ==
    /\ kind = [j \in Jobs |-> "ingest"]
    /\ \A j \in Jobs : state[j] # "absent" =>
          origin[j] \in AllRequests /\ dataset[j] = IdOf[NameOf(origin[j])]
    /\ \A k \in Keys : idempotency[k] # NoJob =>
          state[idempotency[k]] # "absent" /\ Key(origin[idempotency[k]]) = k

ReplyInv ==
    /\ \A r \in replies : state[r.job] # "absent"
    /\ ReplyNamesContent
    /\ StaleOnlyAfterReplacement

\* The uploaded files that take space.
Whole == {p \in Paths \ SampleFiles : file[p] = "whole"}

\* Between the guard and the write there is room for the file and the floor, as
\* long as no other upload comes in between.
HandlerBudget ==
    handler # NotHandling /\ Live = {} =>
        Used + Floor + (IF HandlerAt("submit") THEN 0 ELSE 1) <= volume

\* From then to the end of its load there is room for the floor.
LoneBudget ==
    \A j \in Live \ crowded :
        /\ Live = {j}
        /\ origin[j] \notin Samples /\ worker[j] # "returned" /\ j \notin Staged
              => Used + Floor <= volume

SpaceInv ==
    /\ IsFiniteSet(Whole)
    /\ \A j \in Jobs : worker[j] \in {"none", "queued"} => at[j] = "enter"
    /\ \A j \in starved : state[j] # "absent"
    /\ HandlerBudget /\ LoneBudget
    /\ LoneIngestFits

UploadsInvariant ==
    HandlerInv /\ FilesInv /\ RewriteInv /\ OriginInv /\ ReplyInv /\ SpaceInv
=============================================================================
