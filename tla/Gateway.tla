------------------------------- MODULE Gateway -------------------------------
(***************************************************************************)
(* The job service of the HTTP gateway (src/gateway): a job is a row in   *)
(* PostgreSQL and a hash job:{id} in KeyDB, and the id travels through    *)
(* the KeyDB lists jobs:pending and jobs:processing.                       *)
(*                                                                         *)
(*   - CreateJob (events.go JobsHandler.CreateJob, jobService.CreateJob)   *)
(*     inserts the row, then pipelines HSET job:{id} and LPUSH            *)
(*     jobs:pending; on a pipeline error it marks the row failed.          *)
(*   - CancelJob (JobsHandler.CancelJob, jobService.CancelJob,            *)
(*     KeyDBRepository.CancelJob) reads the row, refuses a completed,      *)
(*     failed or cancelled job, then HSETs state=cancelled, LREMs the id   *)
(*     from jobs:processing, publishes an event and updates the row.       *)
(*   - GetJob is read-only: the row's state, overridden by the hash's      *)
(*     state when the hash exists.  It is the operator View.               *)
(*                                                                         *)
(* Every store call is one step, so the worker and other requests can run *)
(* between two calls of one handler, and any call may fail (at most        *)
(* MaxFaults times), taking the handler's error return.                    *)
(*                                                                         *)
(* The worker is not in this repository; it is modelled from              *)
(* docs/gateway.md section 2.2: BRPOPLPUSH jobs:pending jobs:processing,  *)
(* HSET state=running, and at the end a terminal state in the hash.  The   *)
(* docs do not say whether it also updates the row, so it may or may not.  *)
(***************************************************************************)
EXTENDS Naturals, Sequences, SequencesExt

CONSTANTS Jobs, NoJob, MaxFaults

ASSUME NoJob \notin Jobs /\ MaxFaults \in Nat

States   == {"queued", "running", "completed", "failed", "cancelled", "timeout"}
Terminal == {"completed", "failed", "cancelled", "timeout"}

VARIABLES
    pg,          \* the row's state, or "absent" before the INSERT
    kv,          \* the state field of job:{id}, "" while the hash is empty
    pending,     \* jobs:pending, LPUSH at the head, popped from the tail
    processing,  \* jobs:processing
    creq,        \* where CreateJob's request for each job is
    xreq,        \* where CancelJob's request for each job is
    wjob, wst,   \* the worker's job and phase
    faults       \* store calls that have failed so far

vars == <<pg, kv, pending, processing, creq, xreq, wjob, wst, faults>>

Init ==
    /\ pg = [j \in Jobs |-> "absent"]
    /\ kv = [j \in Jobs |-> ""]
    /\ pending = <<>> /\ processing = <<>>
    /\ creq = [j \in Jobs |-> "idle"]
    /\ xreq = [j \in Jobs |-> "idle"]
    /\ wjob = NoJob /\ wst = "idle"
    /\ faults = 0

(* A store call that returns an error. *)
Fail == faults < MaxFaults /\ faults' = faults + 1

(* jobService.GetJob: the row, overridden by the hash's state. *)
View(j) ==
    IF pg[j] = "absent" THEN "notfound"
    ELSE IF kv[j] # "" THEN kv[j] ELSE pg[j]

-----------------------------------------------------------------------------
(* PostgresRepository.CreateJob: INSERT ... state = queued. *)
CreatePg(j) ==
    /\ creq[j] = "idle"
    /\ \/ Fail /\ creq' = [creq EXCEPT ![j] = "err"] /\ pg' = pg
       \/ /\ pg' = [pg EXCEPT ![j] = "queued"]
          /\ creq' = [creq EXCEPT ![j] = "enqueue"]
          /\ faults' = faults
    /\ UNCHANGED <<kv, pending, processing, xreq, wjob, wst>>

(* KeyDBRepository.EnqueueJob: Pipeline() is not MULTI/EXEC, so an Exec    *)
(* error can leave any of HSET and LPUSH applied: neither, either or both. *)
EnqueueJob(j) ==
    /\ creq[j] = "enqueue"
    /\ \E hset, lpush, ok \in BOOLEAN :
          /\ ok => hset /\ lpush
          /\ IF ok THEN faults' = faults ELSE Fail
          /\ kv' = IF hset THEN [kv EXCEPT ![j] = "queued"] ELSE kv
          /\ pending' = IF lpush THEN <<j>> \o pending ELSE pending
          /\ creq' = [creq EXCEPT ![j] = IF ok THEN "ok" ELSE "markfailed"]
    /\ UNCHANGED <<pg, processing, xreq, wjob, wst>>

(* jobService.CreateJob's clean-up: UpdateJobState(failed), error ignored. *)
MarkFailed(j) ==
    /\ creq[j] = "markfailed"
    /\ \/ Fail /\ pg' = pg
       \/ pg' = [pg EXCEPT ![j] = "failed"] /\ faults' = faults
    /\ creq' = [creq EXCEPT ![j] = "err"]
    /\ UNCHANGED <<kv, pending, processing, xreq, wjob, wst>>

-----------------------------------------------------------------------------
(* JobsHandler.CancelJob's GetJob and jobService.CancelJob's read of the  *)
(* row, with the check on the row's state.  The client has the id from    *)
(* CreateJob's 202 reply.  Both reads see the row (rows are never         *)
(* deleted), so they are one step.                                         *)
CancelCheck(j) ==
    /\ xreq[j] = "idle" /\ creq[j] = "ok"
    /\ \/ Fail /\ xreq' = [xreq EXCEPT ![j] = "done"]
       \/ /\ faults' = faults
          /\ xreq' = [xreq EXCEPT ![j] =
                        IF pg[j] \in {"completed", "failed", "cancelled"}
                        THEN "done" ELSE "kv"]
    /\ UNCHANGED <<pg, kv, pending, processing, creq, wjob, wst>>

(* KeyDBRepository.CancelJob: HSET job:{id} state cancelled. *)
CancelKv(j) ==
    /\ xreq[j] = "kv"
    /\ \/ Fail /\ kv' = kv /\ xreq' = [xreq EXCEPT ![j] = "done"]
       \/ /\ kv' = [kv EXCEPT ![j] = "cancelled"] /\ faults' = faults
          /\ xreq' = [xreq EXCEPT ![j] = "lrem"]
    /\ UNCHANGED <<pg, pending, processing, creq, wjob, wst>>

(* LREM jobs:processing 0 id, then PUBLISH; an error of either returns.   *)
(* jobs:pending is left as it is.                                          *)
CancelLrem(j) ==
    /\ xreq[j] = "lrem"
    /\ \/ Fail /\ processing' = processing /\ xreq' = [xreq EXCEPT ![j] = "done"]
       \/ /\ processing' = Remove(processing, j)
          /\ \/ Fail /\ xreq' = [xreq EXCEPT ![j] = "done"]
             \/ faults' = faults /\ xreq' = [xreq EXCEPT ![j] = "pg"]
    /\ UNCHANGED <<pg, kv, pending, creq, wjob, wst>>

(* UpdateJobState(cancelled).  The cancel command that follows is sent    *)
(* only when the row has a worker_id, which nothing writes, so it never   *)
(* is.                                                                     *)
CancelPg(j) ==
    /\ xreq[j] = "pg"
    /\ \/ Fail /\ pg' = pg
       \/ pg' = [pg EXCEPT ![j] = "cancelled"] /\ faults' = faults
    /\ xreq' = [xreq EXCEPT ![j] = "done"]
    /\ UNCHANGED <<kv, pending, processing, creq, wjob, wst>>

-----------------------------------------------------------------------------
(* The worker (docs/gateway.md 2.2): BRPOPLPUSH moves the oldest id.      *)
WorkerTake ==
    /\ wst = "idle" /\ pending # <<>>
    /\ wjob' = Last(pending) /\ wst' = "taken"
    /\ pending' = Front(pending)
    /\ processing' = <<Last(pending)>> \o processing
    /\ UNCHANGED <<pg, kv, creq, xreq, faults>>

(* The docs do not say what the worker does with a cancelled job.  It is *)
(* given the kindest behaviour: it reads the hash and writes it in one     *)
(* atomic step, and drops a job whose hash says cancelled.                 *)
WorkerDrop ==
    /\ wst \in {"taken", "running"} /\ kv[wjob] = "cancelled"
    /\ processing' = Remove(processing, wjob)
    /\ wjob' = NoJob /\ wst' = "idle"
    /\ UNCHANGED <<pg, kv, pending, creq, xreq, faults>>

WorkerStart ==
    /\ wst = "taken" /\ kv[wjob] # "cancelled"
    /\ kv' = [kv EXCEPT ![wjob] = "running"] /\ wst' = "running"
    /\ UNCHANGED <<pg, pending, processing, creq, xreq, wjob, faults>>

WorkerFinish ==
    /\ wst = "running" /\ kv[wjob] # "cancelled"
    /\ \E out \in {"completed", "failed", "timeout"}, row \in BOOLEAN :
          /\ kv' = [kv EXCEPT ![wjob] = out]
          /\ pg' = IF row THEN [pg EXCEPT ![wjob] = out] ELSE pg
    /\ processing' = Remove(processing, wjob)
    /\ wjob' = NoJob /\ wst' = "idle"
    /\ UNCHANGED <<pending, creq, xreq, faults>>

Next ==
    \/ \E j \in Jobs : CreatePg(j) \/ EnqueueJob(j) \/ MarkFailed(j)
    \/ \E j \in Jobs : CancelCheck(j) \/ CancelKv(j) \/ CancelLrem(j) \/ CancelPg(j)
    \/ WorkerTake \/ WorkerStart \/ WorkerFinish \/ WorkerDrop

Spec == Init /\ [][Next]_vars

-----------------------------------------------------------------------------
GatewayTypeOK ==
    /\ pg \in [Jobs -> States \cup {"absent"}]
    /\ kv \in [Jobs -> States \cup {""}]
    /\ faults \in 0 .. MaxFaults

=============================================================================
