----------------------------- MODULE MCScheduler -----------------------------
(* Instances of Scheduler for TLC.                                         *)
EXTENDS Scheduler, TLC

CONSTANTS p1, p2, w1, w2

(* The worker deployment: one pass per process.                            *)
OwnProcess == (p1 :> w1) @@ (p2 :> w2)

(* The managed deployment: concurrent requests to one process.             *)
SharedProcess == (p1 :> w1) @@ (p2 :> w1)

ASSUME OwnProcessOnePass == WorkerOf = OwnProcess => OnePassPerWorker

(* Two workers over as many runs as one batch takes; or one worker over a  *)
(* run more, so that retries can take the room of a job that is due.       *)
VARIABLE workers

mcVars == <<workers, vars>>

Gate ==
  IF workers = "two" THEN nruns' + Len(due') <= BatchSize ELSE pc'[p2] = "idle"

SchedulerInit == Init /\ workers \in {"two", "one"}

SchedulerNext == Next /\ Gate /\ UNCHANGED workers

SchedulerSpec ==
  /\ SchedulerInit
  /\ [][SchedulerNext]_mcVars
  /\ WF_mcVars(Tick(p1) /\ UNCHANGED workers)
  /\ WF_mcVars(workers = "two" /\ Tick(p2) /\ UNCHANGED workers)
  /\ WF_mcVars(TimePasses /\ UNCHANGED workers)
=============================================================================
