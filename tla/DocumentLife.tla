---------------------------- MODULE DocumentLife ----------------------------
(***************************************************************************)
(* What the queue promises of a document, whatever fails and whoever       *)
(* crashes, as long as a live worker's heartbeats arrive: one worker at a  *)
(* time has it, nobody else touches its chunks, embeddings and results, it *)
(* is done only when these are whole, and done it stays, but for a delete  *)
(* or for the failure of the worker that finished it and does not know.    *)
(***************************************************************************)
CONSTANTS Docs, Workers, Nothing

VARIABLES
    stage,   \* documents.status
    job,     \* the document a worker is at, or Nothing
    whole    \* documents whose chunks, embeddings and results are what they must be

vars == <<stage, job, whole>>

Free(d) == \A w \in Workers : job[w] # d

Move(d, s) == stage' = [stage EXCEPT ![d] = s]

\* A document without text is whole from the start.
Init ==
    /\ stage = [d \in Docs |-> "none"]
    /\ job = [w \in Workers |-> Nothing]
    /\ whole \in SUBSET Docs

Upload(d) == stage[d] = "none" /\ Move(d, "pending") /\ UNCHANGED <<job, whole>>

\* It is taken by a worker that has none, or by one that never learns of it.
Take(w, d) ==
    /\ stage[d] = "pending" /\ Free(d) /\ job[w] = Nothing
    /\ Move(d, "processing")
    /\ job' \in {[job EXCEPT ![w] = d], job}
    /\ UNCHANGED whole

\* Only its worker changes what belongs to it, and only before it is done.
Work(w) ==
    /\ job[w] # Nothing /\ stage[job[w]] \in {"processing", "deleted"}
    /\ whole' \in {whole \cup {job[w]}, whole \ {job[w]}}
    /\ UNCHANGED <<stage, job>>

\* A document deleted meanwhile comes back.
Finish(w) ==
    /\ job[w] \in whole /\ stage[job[w]] \in {"processing", "deleted"}
    /\ Move(job[w], "done")
    /\ job' \in {[job EXCEPT ![w] = Nothing], job}
    /\ UNCHANGED whole

\* Its own worker calls it failed, even when it is done and the worker does not know.
Fail(w) ==
    /\ job[w] # Nothing /\ stage[job[w]] \in {"processing", "deleted", "done"}
    /\ Move(job[w], "failed")
    /\ job' = [job EXCEPT ![w] = Nothing]
    /\ UNCHANGED whole

Abandon(w) ==
    /\ job[w] # Nothing
    /\ job' = [job EXCEPT ![w] = Nothing]
    /\ UNCHANGED <<stage, whole>>

\* Only what nobody has is given to others.
Requeue(S) ==
    /\ \A d \in S : stage[d] = "processing" /\ Free(d)
    /\ stage' = [d \in Docs |-> IF d \in S THEN "pending" ELSE stage[d]]
    /\ UNCHANGED <<job, whole>>

Retry(d) == stage[d] = "failed" /\ Free(d) /\ Move(d, "pending") /\ UNCHANGED <<job, whole>>

Delete(d) == stage[d] \notin {"none", "deleted"} /\ Move(d, "deleted") /\ UNCHANGED <<job, whole>>

Next ==
    \/ \E d \in Docs : Upload(d) \/ Retry(d) \/ Delete(d)
    \/ \E w \in Workers : Work(w) \/ Finish(w) \/ Fail(w) \/ Abandon(w)
    \/ \E w \in Workers, d \in Docs : Take(w, d)
    \/ \E S \in SUBSET Docs : Requeue(S)

Spec == Init /\ [][Next]_vars
=============================================================================
