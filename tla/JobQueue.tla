------------------------------ MODULE JobQueue ------------------------------
(***************************************************************************)
(* The bridge queue: QueueService's calls and the part of BullMQ they rest *)
(* on.  A job id is free when no job with it is in Redis.  add with a      *)
(* taken id is ignored; a completed job is removed (removeOnComplete), so  *)
(* its id is free again; an active job whose worker no longer renews its   *)
(* lock is put back once and then failed; a failed job stays and keeps its *)
(* id taken.                                                               *)
(***************************************************************************)
EXTENDS Transfers

CONSTANTS
    NoNode,         \* the owner of a job that no worker holds
    MaxStalls       \* maxStalledCount of BullMQ (its default is 1)

ASSUME JobQueueAssumption == NoNode \notin Nodes /\ MaxStalls \in Nat

VARIABLE jobs       \* job id -> job in Redis, or NoJob

NoJob == [state |-> "none"]

Jobs == [state : {"waiting", "active", "failed"}, transfer : Transfers,
         owner : Nodes \cup {NoNode}, stalls : 0 .. MaxStalls]

QueueTypeOK == jobs \in [JobIds -> Jobs \cup {NoJob}]

QueueInit == jobs = [j \in JobIds |-> NoJob]

NewJob(e) == [state |-> "waiting", transfer |-> e, owner |-> NoNode, stalls |-> 0]

(* queue.getJob: any job with the id, whatever its state. *)
Exists(j) == jobs[j] # NoJob

(* queue.add with a jobId. *)
Enqueue(j, e) == jobs' = IF Exists(j) THEN jobs ELSE [jobs EXCEPT ![j] = NewJob(e)]

Waiting(j) == Exists(j) /\ jobs[j].state = "waiting"

Active(j) == Exists(j) /\ jobs[j].state = "active"

HoldsLock(n, j) == Active(j) /\ jobs[j].owner = n

(* A variant: an active job is fetched as well.                            *)
Fetch_Active(n, j) ==
    /\ Waiting(j) \/ Active(j)
    /\ jobs' = [jobs EXCEPT ![j] = [@ EXCEPT !.state = "active", !.owner = n]]

(* A worker fetches a waiting job and locks it. *)
Fetch(n, j) ==
    /\ Waiting(j)
    /\ jobs' = [jobs EXCEPT ![j] = [@ EXCEPT !.state = "active", !.owner = n]]

(* The processor returned: the job is removed, unless the lock was lost. *)
Complete(n, j) == jobs' = IF HoldsLock(n, j) THEN [jobs EXCEPT ![j] = NoJob] ELSE jobs

Requeued(job) ==
    [state |-> "waiting", transfer |-> job.transfer, owner |-> NoNode,
     stalls |-> job.stalls + 1]

GivenUp(job) == [job EXCEPT !.state = "failed", !.owner = NoNode]

(* The stalled-jobs checker finds the lock of an active job expired. *)
PutBack(j) ==
    /\ Active(j)
    /\ jobs' = [jobs EXCEPT ![j] = IF @.stalls < MaxStalls THEN Requeued(@) ELSE GivenUp(@)]

=============================================================================
