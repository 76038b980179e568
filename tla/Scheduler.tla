------------------------------ MODULE Scheduler ------------------------------
(***************************************************************************)
(* The durable job scheduler: scheduled_jobs, job_runs and the passes      *)
(* (SchedulerService.tick) that claim runs under a lease, execute them one *)
(* after the other and record their outcome, and the operator's retry      *)
(* (JobMonitoringService.retry).                                           *)
(*                                                                         *)
(* claimed_by is the id of the PROCESS.  The worker process runs one pass  *)
(* at a time; the managed deployment runs a pass per Cloud Scheduler       *)
(* request, up to 40 at once in one process.  WorkerOf says which process  *)
(* each pass runs in, so both deployments are instances of this module.    *)
(*                                                                         *)
(* The clock is abstracted to what has come due: leases that ran out,      *)
(* retries whose back-off is over, jobs whose next_run_at has come.        *)
(***************************************************************************)
EXTENDS Integers, FiniteSets, Sequences

CONSTANTS
  Job,          \* the enabled rows of scheduled_jobs
  CronJob,      \* those of them whose schedule is a cron expression
  Pass,         \* the passes that may run at the same time
  WorkerOf,     \* the process (workerId) each pass runs in
  NoWorker,     \* the NULL of claimed_by
  NRuns,        \* bound on the rows of job_runs
  BatchSize,    \* SchedulerService.MAX_BATCH_SIZE
  MaxAttempts,  \* job_runs.max_attempts
  MaxRetries,   \* bound on the operator's retries
  MaxFaults     \* bound on crashes, database errors and overrun leases

Run == 1..NRuns     \* numbered by created_at

Worker == {WorkerOf[p] : p \in Pass}

ASSUME SchedulerAssumption ==
  /\ CronJob \subseteq Job
  /\ WorkerOf = [p \in Pass |-> WorkerOf[p]]
  /\ NoWorker \notin Worker
  /\ NRuns \in Nat
  /\ BatchSize \in Nat \ {0}
  /\ MaxAttempts \in Nat \ {0}
  /\ MaxRetries \in Nat
  /\ MaxFaults \in Nat

VARIABLES
  due,        \* the jobs whose next_run_at has come, in that order
  nruns,      \* rows 1..nruns of job_runs exist
  status,     \* status of each run
  attempts,   \* attempts of each run
  claimedBy,  \* claimed_by of each run
  leaseOut,   \* the runs whose lease_until has passed
  retryDue,   \* the runs whose next_retry_at has come
  pc,         \* where each pass is
  batch,      \* the runs each pass has claimed and not finished
  snap,       \* ClaimedRun.attempts of the runs in its batch
  lapsed,     \* the runs of its batch whose lease ran out under it
  dispatched, \* the runs whose dispatch returned in some attempt
  retries,    \* the operator's retries so far
  faults      \* the faults that have happened

runs == <<nruns, status, attempts, claimedBy, leaseOut, retryDue>>
pass == <<pc, batch, snap, lapsed>>
vars == <<due, nruns, status, attempts, claimedBy, leaseOut, retryDue,
          pc, batch, snap, lapsed, dispatched, retries, faults>>

Executing == {"execute", "succeed", "fail"}

TypeOK ==
  /\ due \in Seq(Job)
  /\ nruns \in 0..NRuns
  /\ status \in [Run -> {"none", "running", "succeeded", "failed", "dead_lettered"}]
  /\ attempts \in [Run -> 0..MaxAttempts]
  /\ claimedBy \in [Run -> Worker \union {NoWorker}]
  /\ leaseOut \subseteq Run
  /\ retryDue \subseteq Run
  /\ pc \in [Pass -> {"idle", "claimed"} \union Executing]
  /\ batch \in [Pass -> SUBSET Run]
  /\ snap \in [Pass -> [Run -> 0..MaxAttempts]]
  /\ lapsed \in [Pass -> SUBSET Run]
  /\ dispatched \subseteq Run
  /\ retries \in 0..MaxRetries
  /\ faults \in 0..MaxFaults

Init ==
  /\ due = <<>>
  /\ nruns = 0
  /\ status = [r \in Run |-> "none"]
  /\ attempts = [r \in Run |-> 0]
  /\ claimedBy = [r \in Run |-> NoWorker]
  /\ leaseOut = {}
  /\ retryDue = {}
  /\ pc = [p \in Pass |-> "idle"]
  /\ batch = [p \in Pass |-> {}]
  /\ snap = [p \in Pass |-> [r \in Run |-> 0]]
  /\ lapsed = [p \in Pass |-> {}]
  /\ dispatched = {}
  /\ retries = 0
  /\ faults = 0

EndPass(p) ==
  /\ pc' = [pc EXCEPT ![p] = "idle"]
  /\ batch' = [batch EXCEPT ![p] = {}]
  /\ snap' = [snap EXCEPT ![p] = [r \in Run |-> 0]]
  /\ lapsed' = [lapsed EXCEPT ![p] = {}]

(***************************************************************************)
(* claimRetries, one transaction: dead-letter what ran out of lease in its *)
(* last attempt, then claim failed runs that are due and runs that ran out *)
(* of lease in an earlier one, oldest first.                               *)
(***************************************************************************)
LeaseExpired(r) == status[r] = "running" /\ r \in leaseOut

(* Mutant: the UPDATE that dead-letters is left out.                       *)
ExhaustedNone == {}

Exhausted == {r \in Run : LeaseExpired(r) /\ attempts[r] >= MaxAttempts}

(* Mutants: a claim that ignores the lease, and one that ignores attempts. *)
RetryableAnyAttempt ==
  {r \in Run : (status[r] = "failed" /\ r \in retryDue) \/ LeaseExpired(r)}
RetryableAnyLease ==
  {r \in Run : /\ \/ status[r] = "failed" /\ r \in retryDue
                  \/ status[r] = "running"
               /\ attempts[r] < MaxAttempts}

Retryable ==
  {r \in Run : /\ \/ status[r] = "failed" /\ r \in retryDue
                  \/ LeaseExpired(r)
               /\ attempts[r] < MaxAttempts}

Oldest(n, S) == {r \in S : Cardinality({q \in S : q < r}) < n}

ClaimRetries(p) ==
  /\ pc[p] = "idle"
  /\ LET chosen == Oldest(BatchSize, Retryable) IN
     /\ status' = [r \in Run |-> IF r \in Exhausted THEN "dead_lettered"
                                 ELSE IF r \in chosen THEN "running"
                                 ELSE status[r]]
     /\ claimedBy' = [r \in Run |-> IF r \in Exhausted THEN NoWorker
                                    ELSE IF r \in chosen THEN WorkerOf[p]
                                    ELSE claimedBy[r]]
     /\ attempts' = [r \in Run |-> IF r \in chosen THEN attempts[r] + 1
                                   ELSE attempts[r]]
     /\ leaseOut' = leaseOut \ (Exhausted \union chosen)
     /\ retryDue' = retryDue \ (Exhausted \union chosen)
     /\ batch' = [batch EXCEPT ![p] = chosen]
     /\ snap' = [snap EXCEPT
          ![p] = [r \in Run |-> IF r \in chosen THEN attempts[r] + 1 ELSE 0]]
  /\ pc' = [pc EXCEPT ![p] = "claimed"]
  /\ UNCHANGED <<due, nruns, lapsed, dispatched, retries, faults>>

(***************************************************************************)
(* claimDue, a second transaction for the room left in the batch.  The new *)
(* runs are the youngest, so a pass executes its batch in order of id.     *)
(***************************************************************************)
Room(p) ==
  IF Cardinality(batch[p]) < BatchSize THEN BatchSize - Cardinality(batch[p]) ELSE 0

(* Mutant: the comparison turned strict, the latest due row is left out.   *)
PickedShort(p) ==
  IF Room(p) < Len(due) THEN Room(p) ELSE IF due = <<>> THEN 0 ELSE Len(due) - 1

Picked(p) == IF Room(p) < Len(due) THEN Room(p) ELSE Len(due)

PickedJobs(p) == {due[i] : i \in 1..Picked(p)}

ClaimDue(p) ==
  /\ pc[p] = "claimed"
  /\ PickedJobs(p) \intersect CronJob = {}
  /\ nruns' = nruns + Picked(p)
  /\ LET new == (nruns + 1)..(nruns + Picked(p)) IN
     /\ status' = [r \in Run |-> IF r \in new THEN "running" ELSE status[r]]
     /\ attempts' = [r \in Run |-> IF r \in new THEN 1 ELSE attempts[r]]
     /\ claimedBy' = [r \in Run |-> IF r \in new THEN WorkerOf[p] ELSE claimedBy[r]]
     /\ snap' = [snap EXCEPT ![p] = [r \in Run |-> IF r \in new THEN 1 ELSE snap[p][r]]]
     /\ batch' = [batch EXCEPT ![p] = @ \union new]
     /\ pc' = [pc EXCEPT ![p] = IF batch[p] \union new = {} THEN "idle" ELSE "execute"]
  /\ due' = SubSeq(due, Picked(p) + 1, Len(due))
  /\ UNCHANGED <<leaseOut, retryDue, lapsed, dispatched, retries, faults>>

(* nextRunAt throws: the transaction rolls back and tick ends.  What       *)
(* claimRetries has committed stays claimed and is not executed.           *)
ClaimDueThrows(p) ==
  /\ pc[p] = "claimed"
  /\ PickedJobs(p) \intersect CronJob # {}
  /\ EndPass(p)
  /\ UNCHANGED <<due, runs, dispatched, retries, faults>>

(***************************************************************************)
(* execute, for each run of the batch in turn.                             *)
(***************************************************************************)
Current(p) == CHOOSE r \in batch[p] : \A q \in batch[p] : r <= q

Dispatch(p) ==
  /\ pc[p] = "execute"
  /\ dispatched' = dispatched \union {Current(p)}
  /\ pc' = [pc EXCEPT ![p] = "succeed"]
  /\ UNCHANGED <<due, runs, batch, snap, lapsed, retries, faults>>

(* Mutant: the error of a handler is swallowed.                            *)
DispatchThrowsSwallowed(p) ==
  /\ pc[p] = "execute"
  /\ pc' = [pc EXCEPT ![p] = "succeed"]
  /\ UNCHANGED <<due, runs, batch, snap, lapsed, dispatched, retries, faults>>

DispatchThrows(p) ==
  /\ pc[p] = "execute"
  /\ pc' = [pc EXCEPT ![p] = "fail"]
  /\ UNCHANGED <<due, runs, batch, snap, lapsed, dispatched, retries, faults>>

NextRun(p) ==
  \/ /\ batch[p] = {Current(p)}
     /\ EndPass(p)
  \/ /\ batch[p] # {Current(p)}
     /\ pc' = [pc EXCEPT ![p] = "execute"]
     /\ batch' = [batch EXCEPT ![p] = @ \ {Current(p)}]
     /\ snap' = [snap EXCEPT ![p] = [@ EXCEPT ![Current(p)] = 0]]
     /\ lapsed' = [lapsed EXCEPT ![p] = @ \ {Current(p)}]

(* Mutant: no claimed_by in the WHERE clause.                              *)
OwnsRunById(p, r) == TRUE

(* The WHERE clause of both updates: the process, not the attempt.         *)
OwnsRun(p, r) == claimedBy[r] = WorkerOf[p]

Finish(p, outcome) ==
  /\ IF OwnsRun(p, Current(p))
     THEN /\ status' = [status EXCEPT ![Current(p)] = outcome]
          /\ claimedBy' = [claimedBy EXCEPT ![Current(p)] = NoWorker]
          /\ leaseOut' = leaseOut \ {Current(p)}
     ELSE UNCHANGED <<status, claimedBy, leaseOut>>
  /\ NextRun(p)
  /\ UNCHANGED <<due, nruns, attempts, retryDue, dispatched, retries, faults>>

RecordSuccess(p) ==
  /\ pc[p] = "succeed"
  /\ Finish(p, "succeeded")

(* Mutant: one attempt too many before the dead-letter state.              *)
TerminalLate(p) == snap[p][Current(p)] > MaxAttempts

Terminal(p) == snap[p][Current(p)] >= MaxAttempts

RecordFailure(p) ==
  /\ pc[p] = "fail"
  /\ Finish(p, IF Terminal(p) THEN "dead_lettered" ELSE "failed")

(***************************************************************************)
(* JobMonitoringService.retry                                              *)
(***************************************************************************)
OperatorRetry(r) ==
  /\ retries < MaxRetries
  /\ retries' = retries + 1
  /\ status[r] \in {"failed", "dead_lettered"}
  /\ status' = [status EXCEPT ![r] = "failed"]
  /\ attempts' = [attempts EXCEPT ![r] = 0]
  /\ claimedBy' = [claimedBy EXCEPT ![r] = NoWorker]
  /\ leaseOut' = leaseOut \ {r}
  /\ retryDue' = retryDue \union {r}
  /\ UNCHANGED <<due, nruns, pass, dispatched, faults>>

(***************************************************************************)
(* Time and faults.                                                        *)
(***************************************************************************)
Fault ==
  /\ faults < MaxFaults
  /\ faults' = faults + 1

JobComesDue(j) ==
  /\ j \notin {due[i] : i \in 1..Len(due)}
  /\ nruns + Len(due) < NRuns
  /\ due' = Append(due, j)
  /\ UNCHANGED <<runs, pass, dispatched, retries, faults>>

RetryComesDue(r) ==
  /\ status[r] = "failed"
  /\ r \notin retryDue
  /\ retryDue' = retryDue \union {r}
  /\ UNCHANGED <<due, nruns, status, attempts, claimedBy, leaseOut, pass,
                 dispatched, retries, faults>>

Holds(p, r) == r \in batch[p] /\ OwnsRun(p, r)

(* The lease of a run that nobody executes any more runs out ...           *)
OrphanLeaseExpires(r) ==
  /\ status[r] = "running"
  /\ r \notin leaseOut
  /\ \A p \in Pass : ~ Holds(p, r)
  /\ leaseOut' = leaseOut \union {r}
  /\ UNCHANGED <<due, nruns, status, attempts, claimedBy, retryDue, pass,
                 dispatched, retries, faults>>

(* ... or that of a run some pass still has in its batch: the lease of the *)
(* whole batch is taken once, and runs are executed one by one.            *)
Overrun(r) ==
  /\ status[r] = "running"
  /\ r \notin leaseOut
  /\ \E p \in Pass : Holds(p, r)
  /\ Fault
  /\ leaseOut' = leaseOut \union {r}
  /\ lapsed' = [p \in Pass |-> IF Holds(p, r) THEN lapsed[p] \union {r} ELSE lapsed[p]]
  /\ UNCHANGED <<due, nruns, status, attempts, claimedBy, retryDue, pc, batch,
                 snap, dispatched, retries>>

Crash(p) ==
  /\ pc[p] # "idle"
  /\ Fault
  /\ EndPass(p)
  /\ UNCHANGED <<due, runs, dispatched, retries>>

(* An UPDATE of execute is refused: the first lands in the catch, which    *)
(* records a failure; the second throws out of tick.                       *)
DatabaseError(p) ==
  /\ Fault
  /\ \/ /\ pc[p] = "succeed"
        /\ pc' = [pc EXCEPT ![p] = "fail"]
        /\ UNCHANGED <<batch, snap, lapsed>>
     \/ /\ pc[p] = "fail"
        /\ EndPass(p)
  /\ UNCHANGED <<due, runs, dispatched, retries>>

Tick(p) ==
  \/ ClaimRetries(p)
  \/ ClaimDue(p)
  \/ ClaimDueThrows(p)
  \/ Dispatch(p)
  \/ DispatchThrows(p)
  \/ RecordSuccess(p)
  \/ RecordFailure(p)

Next ==
  \/ \E p \in Pass : Tick(p) \/ Crash(p) \/ DatabaseError(p)
  \/ \E j \in Job : JobComesDue(j)
  \/ \E r \in Run : OperatorRetry(r) \/ RetryComesDue(r)
                    \/ OrphanLeaseExpires(r) \/ Overrun(r)

Spec == Init /\ [][Next]_vars

(* The loop ticks again after every pass, and time passes.                 *)
TimePasses == \E r \in Run : RetryComesDue(r) \/ OrphanLeaseExpires(r)

Fairness == (\A p \in Pass : WF_vars(Tick(p))) /\ WF_vars(TimePasses)

FairSpec == Spec /\ Fairness
-----------------------------------------------------------------------------
(* Each process runs one pass at a time (the worker process, not the       *)
(* managed deployment).                                                    *)
OnePassPerWorker == \A p, q \in Pass : WorkerOf[p] = WorkerOf[q] => p = q

(* A failed run can still be retried, and a dead-lettered one has used all *)
(* its attempts: "retries failures and dead-letters after the configured   *)
(* maximum" (scheduler.spec.ts:54).  A late result must not be recorded    *)
(* against a later attempt.                                                *)
DeadLetterIffExhausted ==
  \A r \in Run :
    /\ status[r] = "failed" => attempts[r] < MaxAttempts
    /\ status[r] = "dead_lettered" => attempts[r] >= MaxAttempts

(* Two passes have the same run in hand only when its lease ran out under  *)
(* one of them (scheduler.service.ts:153-167, 200-231).                    *)
OneLiveAttempt ==
  \A p, q \in Pass :
    p # q => batch[p] \intersect batch[q] \subseteq lapsed[p] \union lapsed[q]

(* A run that succeeded stays succeeded, whatever late results, expired    *)
(* leases and retries come, and was dispatched without an error.           *)
SuccessIsFinal ==
  [][\A r \in Run : status[r] = "succeeded" =>
       status'[r] = "succeeded" /\ attempts'[r] = attempts[r] /\ claimedBy'[r] = NoWorker]_vars
SuccessWasDispatched ==
  \A r \in Run : status[r] = "succeeded" => r \in dispatched

(* Every run ends: it succeeds or reaches the dead-letter state.           *)
EveryRunEnds ==
  \A r \in Run : status[r] = "running" ~> status[r] \in {"succeeded", "dead_lettered"}

IsDue(j) == \E i \in 1..Len(due) : due[i] = j

(* A job that is due gets a run, although retries are claimed before it    *)
(* and may fill the batch; but while a job with a cron schedule is due,    *)
(* nextRunAt throws and takes back the runs of all jobs claimed beside it  *)
(* (scheduler.service.ts:70-73, 115).                                      *)
DueJobRuns ==
  \A j \in Job \ CronJob : IsDue(j) ~> ~ IsDue(j) \/ (\E c \in CronJob : IsDue(c))

(* ADR-0007 (line 50) promises a run to every due job: a cron expression   *)
(* is "accepted, logged as a warning, and treated as hourly".              *)
EveryDueJobRuns == \A j \in Job : IsDue(j) ~> ~ IsDue(j)
=============================================================================
