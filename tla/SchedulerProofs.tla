--------------------------- MODULE SchedulerProofs ---------------------------
(***************************************************************************)
(* Proofs about Scheduler for any number of jobs, passes, runs, attempts,  *)
(* retries and faults, and any batch size.                                 *)
(***************************************************************************)
EXTENDS Scheduler, WellFoundedInduction, FiniteSetTheorems, SequenceTheorems, TLAPS

(* Every non-empty set of naturals has a least element.                    *)
LEMMA LeastExists ==
  ASSUME NEW S \in SUBSET Nat, S # {}
  PROVE  \E e \in S : \A d \in S : e <= d
<1>1. PICK e \in S : \A d \in S : ~ (<<d, e>> \in OpToRel(<, Nat))
  BY NatLessThanWellFounded, WFMin, Zenon
<1>2. \A c, d \in Nat : <<c, d>> \in OpToRel(<, Nat) <=> c < d
  BY DEF OpToRel
<1>3. \A d \in S : ~ (d < e)
  BY <1>1, <1>2, Zenon
<1> QED
  BY <1>3

(* The rows of job_runs, in either deployment.                             *)
RowInv ==
  /\ nruns + Len(due) <= NRuns
  /\ \A r \in Run : status[r] = "none" <=> r > nruns
  /\ \A r \in Run : status[r] = "running" <=> claimedBy[r] # NoWorker
  /\ \A r \in leaseOut : status[r] = "running"

(* The batches of the passes, in either deployment.                        *)
PassInv ==
  /\ \A p \in Pass : \A r \in batch[p] : r <= nruns
  /\ \A p \in Pass : lapsed[p] \subseteq batch[p]
  /\ \A p \in Pass : pc[p] = "idle" => batch[p] = {}
  /\ \A p \in Pass : pc[p] \in Executing => batch[p] # {}

IInv == TypeOK /\ RowInv /\ PassInv

(* A claim of a process is the claim of its one pass: the attempt on the   *)
(* row is the attempt in hand, and a claim is lost only by lapse of lease. *)
ClaimInv ==
  \A p \in Pass : \A r \in batch[p] :
    /\ claimedBy[r] = WorkerOf[p] =>
         /\ attempts[r] = snap[p][r]
         /\ r \in leaseOut <=> r \in lapsed[p]
    /\ claimedBy[r] # WorkerOf[p] => r \in lapsed[p]

OwnInv == IInv /\ ClaimInv /\ DeadLetterIffExhausted
-----------------------------------------------------------------------------
(* A pass with runs left executes the oldest of them.                      *)
LEMMA CurrentInBatch ==
  ASSUME TypeOK, NEW p \in Pass, batch[p] # {}
  PROVE  Current(p) \in batch[p] /\ Current(p) \in Run
<1>1. batch[p] \in SUBSET Nat /\ batch[p] \subseteq Run
  BY DEF TypeOK, Run
<1>2. \E r \in batch[p] : \A q \in batch[p] : r <= q
  BY <1>1, LeastExists
<1> QED
  BY <1>1, <1>2 DEF Current

LEMMA CurrentIsOldest ==
  ASSUME TypeOK, NEW p \in Pass, batch[p] # {}
  PROVE  \A q \in batch[p] : Current(p) <= q
<1>1. batch[p] \in SUBSET Nat
  BY DEF TypeOK, Run
<1>2. \E r \in batch[p] : \A q \in batch[p] : r <= q
  BY <1>1, LeastExists
<1> QED
  BY <1>2 DEF Current

(* claimDue inserts no more runs than there are jobs due.                  *)
LEMMA PickedBounds ==
  ASSUME TypeOK, NEW p \in Pass
  PROVE  Picked(p) \in 0..Len(due)
<1>1. IsFiniteSet(batch[p])
  <2>1. batch[p] \subseteq Run
    BY DEF TypeOK
  <2>2. IsFiniteSet(Run)
    <3>1. 1 \in Int /\ NRuns \in Int
      BY SchedulerAssumption
    <3> QED
      BY <3>1, FS_Interval, Zenon DEF Run
  <2> QED
    BY <2>1, <2>2, FS_Subset
<1>2. Cardinality(batch[p]) \in Nat
  BY <1>1, FS_CardinalityType
<1>3. Room(p) \in Nat
  BY <1>2, SchedulerAssumption DEF Room
<1>4. Len(due) \in Nat
  BY LenProperties DEF TypeOK
<1> QED
  BY <1>3, <1>4 DEF Picked

(* The statuses and the batch of claimRetries.                             *)
LEMMA OldestSubset == \A n, S : Oldest(n, S) \subseteq S
BY DEF Oldest
-----------------------------------------------------------------------------
LEMMA InitInv == Init => OwnInv
<1> SUFFICES ASSUME Init
             PROVE  OwnInv
  OBVIOUS
<1> USE DEF Init
<1>1. TypeOK
  BY SchedulerAssumption DEF TypeOK, Run
<1>2. RowInv
  BY SchedulerAssumption DEF RowInv, Run
<1>3. PassInv
  BY DEF PassInv, Executing
<1>4. ClaimInv /\ DeadLetterIffExhausted
  BY DEF ClaimInv, DeadLetterIffExhausted
<1> QED
  BY <1>1, <1>2, <1>3, <1>4 DEF OwnInv, IInv

LEMMA ClaimRetriesKeepsInv ==
  ASSUME IInv, NEW p \in Pass, ClaimRetries(p)
  PROVE  IInv' /\ (OnePassPerWorker /\ OwnInv => OwnInv')
<1> DEFINE chosen == Oldest(BatchSize, Retryable)
<1>1. /\ chosen \subseteq Retryable
      /\ chosen \subseteq Run
      /\ \A r \in chosen : /\ status[r] = "failed" \/ LeaseExpired(r)
                           /\ attempts[r] < MaxAttempts
                           /\ r \notin Exhausted
  BY OldestSubset, SchedulerAssumption DEF Retryable, Exhausted, IInv, TypeOK
<1>2. /\ pc[p] = "idle"
      /\ pc' = [pc EXCEPT ![p] = "claimed"]
      /\ status' = [r \in Run |-> IF r \in Exhausted THEN "dead_lettered"
                                  ELSE IF r \in chosen THEN "running" ELSE status[r]]
      /\ claimedBy' = [r \in Run |-> IF r \in Exhausted THEN NoWorker
                                     ELSE IF r \in chosen THEN WorkerOf[p] ELSE claimedBy[r]]
      /\ attempts' = [r \in Run |-> IF r \in chosen THEN attempts[r] + 1 ELSE attempts[r]]
      /\ leaseOut' = leaseOut \ (Exhausted \union chosen)
      /\ retryDue' = retryDue \ (Exhausted \union chosen)
      /\ batch' = [batch EXCEPT ![p] = chosen]
      /\ snap' = [snap EXCEPT ![p] = [r \in Run |-> IF r \in chosen THEN attempts[r] + 1 ELSE 0]]
      /\ UNCHANGED <<due, nruns, lapsed, dispatched, retries, faults>>
  BY DEF ClaimRetries
<1> HIDE DEF chosen
<1>3. \A r \in chosen : attempts[r] + 1 \in 0..MaxAttempts
  BY <1>1, SchedulerAssumption DEF IInv, TypeOK
<1>4. WorkerOf[p] \in Worker /\ WorkerOf[p] # NoWorker
  BY SchedulerAssumption DEF Worker
<1>5. TypeOK'
  <2>1. /\ attempts' \in [Run -> 0..MaxAttempts]
        /\ snap' \in [Pass -> [Run -> 0..MaxAttempts]]
    BY <1>2, <1>3, SchedulerAssumption DEF IInv, TypeOK
  <2>2. /\ status' \in [Run -> {"none", "running", "succeeded", "failed", "dead_lettered"}]
        /\ claimedBy' \in [Run -> Worker \union {NoWorker}]
    BY <1>2, <1>4 DEF IInv, TypeOK
  <2>3. /\ pc' \in [Pass -> {"idle", "claimed"} \union Executing]
        /\ batch' \in [Pass -> SUBSET Run]
        /\ leaseOut' \subseteq Run
        /\ retryDue' \subseteq Run
    BY <1>1, <1>2 DEF IInv, TypeOK
  <2> QED
    BY <1>2, <2>1, <2>2, <2>3 DEF IInv, TypeOK
<1>6. RowInv'
  BY <1>1, <1>2, <1>4 DEF IInv, TypeOK, RowInv, LeaseExpired, Exhausted
<1>7. PassInv'
  BY <1>1, <1>2 DEF IInv, TypeOK, RowInv, PassInv, LeaseExpired, Executing, Run
<1>8. ASSUME OnePassPerWorker, OwnInv
      PROVE  ClaimInv'
  <2> SUFFICES ASSUME NEW q \in Pass, NEW r \in batch'[q]
               PROVE  /\ claimedBy'[r] = WorkerOf[q] =>
                           /\ attempts'[r] = snap'[q][r]
                           /\ r \in leaseOut' <=> r \in lapsed'[q]
                      /\ claimedBy'[r] # WorkerOf[q] => r \in lapsed'[q]
    BY DEF ClaimInv
  <2>1. CASE q = p
    <3>1. r \in chosen /\ r \in Run
      BY <2>1, <1>1, <1>2 DEF IInv, TypeOK
    <3>2. lapsed[p] = {}
      BY <1>2 DEF IInv, PassInv
    <3>3. claimedBy'[r] = WorkerOf[p] /\ attempts'[r] = attempts[r] + 1 /\ r \notin leaseOut'
      BY <3>1, <1>1, <1>2
    <3>4. snap'[p][r] = attempts[r] + 1
      BY <3>1, <1>2 DEF IInv, TypeOK
    <3> QED
      BY <2>1, <3>2, <3>3, <3>4, <1>2
  <2>2. CASE q # p
    <3>1. r \in batch[q] /\ r \in Run /\ snap'[q] = snap[q] /\ lapsed'[q] = lapsed[q]
      BY <2>2, <1>2 DEF IInv, TypeOK
    <3>2. WorkerOf[q] # WorkerOf[p] /\ WorkerOf[q] # NoWorker
      BY <1>8, <2>2, SchedulerAssumption DEF OnePassPerWorker, Worker
    <3>3. CASE r \in Exhausted \union chosen
      <4>1. claimedBy'[r] # WorkerOf[q]
        BY <3>1, <3>2, <3>3, <1>2
      <4>2. r \in leaseOut \/ claimedBy[r] = NoWorker
        BY <3>1, <3>3, <1>1 DEF Exhausted, LeaseExpired, IInv, RowInv
      <4>3. r \in lapsed[q]
        BY <1>8, <3>1, <3>2, <4>2 DEF OwnInv, ClaimInv
      <4> QED
        BY <4>1, <4>3, <3>1
    <3>4. CASE r \notin Exhausted \union chosen
      <4>1. claimedBy'[r] = claimedBy[r] /\ attempts'[r] = attempts[r] /\ (r \in leaseOut' <=> r \in leaseOut)
        BY <3>1, <3>4, <1>2
      <4> QED
        BY <1>8, <3>1, <4>1 DEF OwnInv, ClaimInv
    <3> QED
      BY <3>3, <3>4
  <2> QED
    BY <2>1, <2>2
<1>9. ASSUME OwnInv
      PROVE  DeadLetterIffExhausted'
  BY <1>9, <1>1, <1>2 DEF OwnInv, DeadLetterIffExhausted, Exhausted
<1> QED
  BY <1>5, <1>6, <1>7, <1>8, <1>9 DEF IInv, OwnInv

LEMMA ClaimDueKeepsInv ==
  ASSUME IInv, NEW p \in Pass, ClaimDue(p)
  PROVE  IInv' /\ (OwnInv => OwnInv')
<1> DEFINE new == (nruns + 1)..(nruns + Picked(p))
<1>1. /\ Len(due) \in Nat
      /\ nruns \in Nat
      /\ Picked(p) \in 0..Len(due)
      /\ nruns + Len(due) <= NRuns
  BY PickedBounds, LenProperties, SchedulerAssumption DEF IInv, TypeOK, RowInv
<1>2. new \subseteq Run /\ \A r \in Run : r \in new => r > nruns /\ status[r] = "none"
  BY <1>1, SchedulerAssumption, SMTT(20) DEF Run, IInv, RowInv
<1>3. /\ pc[p] = "claimed"
      /\ nruns' = nruns + Picked(p)
      /\ status' = [r \in Run |-> IF r \in new THEN "running" ELSE status[r]]
      /\ attempts' = [r \in Run |-> IF r \in new THEN 1 ELSE attempts[r]]
      /\ claimedBy' = [r \in Run |-> IF r \in new THEN WorkerOf[p] ELSE claimedBy[r]]
      /\ snap' = [snap EXCEPT ![p] = [r \in Run |-> IF r \in new THEN 1 ELSE snap[p][r]]]
      /\ batch' = [batch EXCEPT ![p] = batch[p] \union new]
      /\ pc' = [pc EXCEPT ![p] = IF batch[p] \union new = {} THEN "idle" ELSE "execute"]
      /\ due' = SubSeq(due, Picked(p) + 1, Len(due))
      /\ UNCHANGED <<leaseOut, retryDue, lapsed, dispatched, retries, faults>>
  BY DEF ClaimDue
<1>4. due' \in Seq(Job) /\ Len(due') = Len(due) - Picked(p)
  BY <1>1, <1>3, SubSeqProperties, SMTT(20) DEF IInv, TypeOK
<1>5. WorkerOf[p] \in Worker /\ WorkerOf[p] # NoWorker
  BY SchedulerAssumption DEF Worker
<1>6. nruns' \in 0..NRuns /\ \A r \in Run : r > nruns' <=> (r > nruns /\ r \notin new)
  BY <1>1, <1>3, SchedulerAssumption DEF Run
<1> HIDE DEF new
<1>7. TypeOK'
  <2>1. /\ attempts' \in [Run -> 0..MaxAttempts]
        /\ snap' \in [Pass -> [Run -> 0..MaxAttempts]]
    BY <1>3, SchedulerAssumption DEF IInv, TypeOK
  <2>2. /\ status' \in [Run -> {"none", "running", "succeeded", "failed", "dead_lettered"}]
        /\ claimedBy' \in [Run -> Worker \union {NoWorker}]
    BY <1>3, <1>5 DEF IInv, TypeOK
  <2>3. /\ pc' \in [Pass -> {"idle", "claimed"} \union Executing]
        /\ batch' \in [Pass -> SUBSET Run]
    BY <1>2, <1>3 DEF IInv, TypeOK, Executing
  <2> QED
    BY <1>3, <1>4, <1>6, <2>1, <2>2, <2>3 DEF IInv, TypeOK
<1>8. RowInv'
  <2>1. nruns' + Len(due') <= NRuns
    BY <1>1, <1>3, <1>4, SchedulerAssumption
  <2>2. \A r \in Run : status'[r] = "none" <=> r > nruns'
    BY <1>2, <1>3, <1>6 DEF IInv, RowInv
  <2>3. \A r \in Run : status'[r] = "running" <=> claimedBy'[r] # NoWorker
    BY <1>3, <1>5 DEF IInv, RowInv
  <2>4. \A r \in leaseOut' : status'[r] = "running"
    BY <1>3 DEF IInv, TypeOK, RowInv
  <2> QED
    BY <2>1, <2>2, <2>3, <2>4 DEF RowInv
<1>9. PassInv'
  <2>1. \A r \in Run : r <= nruns' <=> ~ (r > nruns')
    BY <1>6, SchedulerAssumption DEF Run
  <2>2. \A q \in Pass : \A r \in batch[q] : r \in Run /\ ~ (r > nruns)
    BY <1>1 DEF IInv, TypeOK, PassInv, Run
  <2>3. \A q \in Pass : \A r \in batch'[q] : r <= nruns'
    BY <1>2, <1>3, <1>6, <2>1, <2>2 DEF IInv, TypeOK
  <2> QED
    BY <1>3, <2>3 DEF IInv, TypeOK, PassInv, Executing
<1>10. ASSUME OwnInv
       PROVE  ClaimInv'
  <2>1. \A q \in Pass : batch[q] \intersect new = {} /\ lapsed[q] \intersect new = {}
    BY <1>1, <1>2 DEF IInv, TypeOK, PassInv, Run
  <2>2. leaseOut \intersect new = {}
    BY <1>2 DEF IInv, TypeOK, RowInv
  <2> SUFFICES ASSUME NEW q \in Pass, NEW r \in batch'[q]
               PROVE  /\ claimedBy'[r] = WorkerOf[q] =>
                           /\ attempts'[r] = snap'[q][r]
                           /\ r \in leaseOut' <=> r \in lapsed'[q]
                      /\ claimedBy'[r] # WorkerOf[q] => r \in lapsed'[q]
    BY DEF ClaimInv
  <2>3. CASE r \in new
    <3>1. q = p /\ r \in Run
      BY <2>1, <2>3, <1>2, <1>3 DEF IInv, TypeOK
    <3>2. snap'[p][r] = 1
      BY <3>1, <2>3, <1>3 DEF IInv, TypeOK
    <3> QED
      BY <2>1, <2>2, <2>3, <3>1, <3>2, <1>3
  <2>4. CASE r \notin new
    <3>1. r \in batch[q] /\ r \in Run
      BY <2>4, <1>3 DEF IInv, TypeOK
    <3>2. snap'[q][r] = snap[q][r]
      BY <3>1, <2>4, <1>3 DEF IInv, TypeOK
    <3>3. claimedBy'[r] = claimedBy[r] /\ attempts'[r] = attempts[r]
      BY <3>1, <2>4, <1>3
    <3> QED
      BY <1>10, <3>1, <3>2, <3>3, <1>3 DEF OwnInv, ClaimInv
  <2> QED
    BY <2>3, <2>4
<1>11. ASSUME OwnInv
       PROVE  DeadLetterIffExhausted'
  BY <1>11, <1>3 DEF OwnInv, DeadLetterIffExhausted
<1> QED
  BY <1>7, <1>8, <1>9, <1>10, <1>11 DEF IInv, OwnInv

(* Dispatch, DispatchThrows and one case of DatabaseError.                 *)
LEMMA MoveKeepsInv ==
  ASSUME IInv, NEW p \in Pass, pc[p] \in Executing,
         NEW next \in Executing, pc' = [pc EXCEPT ![p] = next],
         UNCHANGED <<due, runs, batch, snap, lapsed, retries>>,
         dispatched' \subseteq Run,
         faults' \in 0..MaxFaults
  PROVE  IInv' /\ (OwnInv => OwnInv')
<1> USE DEF IInv, runs
<1>1. TypeOK'
  BY DEF TypeOK
<1>2. RowInv'
  BY DEF RowInv
<1>3. PassInv'
  BY DEF TypeOK, PassInv, Executing
<1>4. OwnInv => ClaimInv' /\ DeadLetterIffExhausted'
  BY DEF OwnInv, ClaimInv, DeadLetterIffExhausted
<1> QED
  BY <1>1, <1>2, <1>3, <1>4 DEF OwnInv

(* ClaimDueThrows, Crash and the other case of DatabaseError.              *)
LEMMA EndPassKeepsInv ==
  ASSUME IInv, NEW p \in Pass, EndPass(p),
         UNCHANGED <<due, runs, dispatched, retries>>,
         faults' \in 0..MaxFaults
  PROVE  IInv' /\ (OwnInv => OwnInv')
<1> USE DEF IInv, EndPass, runs
<1>1. TypeOK'
  BY SchedulerAssumption DEF TypeOK
<1>2. RowInv'
  BY DEF RowInv
<1>3. PassInv'
  BY DEF TypeOK, PassInv, Executing
<1>4. OwnInv => ClaimInv' /\ DeadLetterIffExhausted'
  BY DEF TypeOK, OwnInv, ClaimInv, DeadLetterIffExhausted
<1> QED
  BY <1>1, <1>2, <1>3, <1>4 DEF OwnInv

LEMMA FinishKeepsInv ==
  ASSUME IInv, NEW p \in Pass, pc[p] \in Executing,
         NEW outcome \in {"succeeded", "failed", "dead_lettered"},
         outcome = "failed" => ~ Terminal(p),
         outcome = "dead_lettered" => Terminal(p),
         Finish(p, outcome)
  PROVE  IInv' /\ (OnePassPerWorker /\ OwnInv => OwnInv')
<1> DEFINE c == Current(p)
<1>1. c \in batch[p] /\ c \in Run
  BY CurrentInBatch DEF IInv, PassInv
<1>2. UNCHANGED <<due, nruns, attempts, retryDue, dispatched, retries, faults>>
  BY DEF Finish
<1>3. \/ /\ claimedBy[c] = WorkerOf[p]
         /\ status' = [status EXCEPT ![c] = outcome]
         /\ claimedBy' = [claimedBy EXCEPT ![c] = NoWorker]
         /\ leaseOut' = leaseOut \ {c}
      \/ /\ claimedBy[c] # WorkerOf[p]
         /\ UNCHANGED <<status, claimedBy, leaseOut>>
  BY DEF Finish, OwnsRun
<1>4. \/ /\ batch[p] = {c}
         /\ pc' = [pc EXCEPT ![p] = "idle"]
         /\ batch' = [batch EXCEPT ![p] = {}]
         /\ snap' = [snap EXCEPT ![p] = [r \in Run |-> 0]]
         /\ lapsed' = [lapsed EXCEPT ![p] = {}]
      \/ /\ batch[p] # {c}
         /\ pc' = [pc EXCEPT ![p] = "execute"]
         /\ batch' = [batch EXCEPT ![p] = batch[p] \ {c}]
         /\ snap' = [snap EXCEPT ![p] = [snap[p] EXCEPT ![c] = 0]]
         /\ lapsed' = [lapsed EXCEPT ![p] = lapsed[p] \ {c}]
  BY DEF Finish, NextRun, EndPass
<1>a. batch[p] = {c} =>
        /\ pc' = [pc EXCEPT ![p] = "idle"]
        /\ batch' = [batch EXCEPT ![p] = {}]
        /\ snap' = [snap EXCEPT ![p] = [r \in Run |-> 0]]
        /\ lapsed' = [lapsed EXCEPT ![p] = {}]
  BY <1>4
<1>b. batch[p] # {c} =>
        /\ pc' = [pc EXCEPT ![p] = "execute"]
        /\ batch' = [batch EXCEPT ![p] = batch[p] \ {c}]
        /\ snap' = [snap EXCEPT ![p] = [snap[p] EXCEPT ![c] = 0]]
        /\ lapsed' = [lapsed EXCEPT ![p] = lapsed[p] \ {c}]
  BY <1>4
<1>5. WorkerOf[p] # NoWorker
  BY SchedulerAssumption DEF Worker
<1>6. Terminal(p) <=> snap[p][c] >= MaxAttempts
  BY DEF Terminal
<1> HIDE DEF c
<1>7. TypeOK'
  <2>1. /\ pc' \in [Pass -> {"idle", "claimed"} \union Executing]
        /\ batch' \in [Pass -> SUBSET Run]
        /\ lapsed' \in [Pass -> SUBSET Run]
        /\ snap' \in [Pass -> [Run -> 0..MaxAttempts]]
    <3>1. /\ batch \in [Pass -> SUBSET Run]
          /\ lapsed \in [Pass -> SUBSET Run]
          /\ pc \in [Pass -> {"idle", "claimed"} \union Executing]
          /\ snap \in [Pass -> [Run -> 0..MaxAttempts]]
          /\ 0 \in 0..MaxAttempts
      BY SchedulerAssumption DEF IInv, TypeOK
    <3>2. CASE batch[p] = {c}
      <4>1. [r \in Run |-> 0] \in [Run -> 0..MaxAttempts]
        BY <3>1
      <4>2. pc' \in [Pass -> {"idle", "claimed"} \union Executing]
        BY <1>a, <3>1, <3>2
      <4>3. batch' \in [Pass -> SUBSET Run] /\ lapsed' \in [Pass -> SUBSET Run]
        BY <1>a, <3>1, <3>2
      <4>4. snap' \in [Pass -> [Run -> 0..MaxAttempts]]
        BY <1>a, <3>1, <3>2, <4>1
      <4> QED
        BY <4>2, <4>3, <4>4
    <3>3. CASE batch[p] # {c}
      <4>1. batch[p] \ {c} \in SUBSET Run /\ lapsed[p] \ {c} \in SUBSET Run
        BY <3>1
      <4>2. [snap[p] EXCEPT ![c] = 0] \in [Run -> 0..MaxAttempts]
        BY <1>1, <3>1
      <4>3. pc' \in [Pass -> {"idle", "claimed"} \union Executing]
        BY <1>b, <3>1, <3>3 DEF Executing
      <4>4. batch' \in [Pass -> SUBSET Run] /\ lapsed' \in [Pass -> SUBSET Run]
        <5>1. batch' = [batch EXCEPT ![p] = batch[p] \ {c}]
          BY <1>b, <3>3
        <5>2. lapsed' = [lapsed EXCEPT ![p] = lapsed[p] \ {c}]
          BY <1>b, <3>3
        <5> QED
          BY <3>1, <4>1, <5>1, <5>2
      <4>5. snap' \in [Pass -> [Run -> 0..MaxAttempts]]
        BY <1>b, <3>1, <3>3, <4>2
      <4> QED
        BY <4>3, <4>4, <4>5
    <3> QED
      BY <3>2, <3>3
  <2>3. /\ status' \in [Run -> {"none", "running", "succeeded", "failed", "dead_lettered"}]
        /\ claimedBy' \in [Run -> Worker \union {NoWorker}]
        /\ leaseOut' \subseteq Run
    <3>1. /\ status \in [Run -> {"none", "running", "succeeded", "failed", "dead_lettered"}]
          /\ claimedBy \in [Run -> Worker \union {NoWorker}]
          /\ leaseOut \subseteq Run
      BY DEF IInv, TypeOK
    <3>2. CASE UNCHANGED <<status, claimedBy, leaseOut>>
      BY <3>1, <3>2
    <3>3. CASE /\ status' = [status EXCEPT ![c] = outcome]
               /\ claimedBy' = [claimedBy EXCEPT ![c] = NoWorker]
               /\ leaseOut' = leaseOut \ {c}
      BY <3>1, <3>3
    <3> QED
      BY <1>3, <3>2, <3>3
  <2>4. /\ due' \in Seq(Job) /\ nruns' \in 0..NRuns
        /\ attempts' \in [Run -> 0..MaxAttempts]
        /\ retryDue' \subseteq Run /\ dispatched' \subseteq Run
        /\ retries' \in 0..MaxRetries /\ faults' \in 0..MaxFaults
    BY <1>2 DEF IInv, TypeOK
  <2> QED
    BY <2>1, <2>3, <2>4, Zenon DEF TypeOK
<1>8. RowInv'
  <2>1. claimedBy[c] = WorkerOf[p] => status[c] = "running"
    BY <1>1, <1>5 DEF IInv, RowInv
  <2>2. /\ status \in [Run -> {"none", "running", "succeeded", "failed", "dead_lettered"}]
        /\ claimedBy \in [Run -> Worker \union {NoWorker}]
        /\ RowInv
    BY DEF IInv, TypeOK
  <2>3. CASE claimedBy[c] = WorkerOf[p]
    <3>1. /\ status' = [status EXCEPT ![c] = outcome]
          /\ claimedBy' = [claimedBy EXCEPT ![c] = NoWorker]
          /\ leaseOut' = leaseOut \ {c}
      BY <1>3, <2>3
    <3>2. outcome \notin {"none", "running"} /\ status[c] = "running"
      BY <2>1, <2>3
    <3>3. \A r \in Run : r # c => status'[r] = status[r] /\ claimedBy'[r] = claimedBy[r]
      BY <1>1, <2>2, <3>1
    <3>4. status'[c] = outcome /\ claimedBy'[c] = NoWorker
      BY <1>1, <2>2, <3>1
    <3>5. \A r \in Run : status'[r] = "none" <=> status[r] = "none"
      BY <3>2, <3>3, <3>4
    <3>6. \A r \in Run : status'[r] = "running" <=> claimedBy'[r] # NoWorker
      BY <2>2, <3>2, <3>3, <3>4 DEF RowInv
    <3>7. \A r \in leaseOut' : status'[r] = "running"
      <4>1. leaseOut \subseteq Run
        BY DEF IInv, TypeOK
      <4> QED
        BY <2>2, <3>1, <3>3, <4>1 DEF RowInv
    <3> QED
      BY <1>2, <2>2, <3>5, <3>6, <3>7 DEF RowInv
  <2>4. CASE claimedBy[c] # WorkerOf[p]
    BY <1>2, <1>3, <2>2, <2>4 DEF RowInv
  <2> QED
    BY <2>3, <2>4
<1>9. PassInv'
  <2>1. CASE batch[p] = {c}
    <3>1. pc'[p] = "idle" /\ batch'[p] = {} /\ lapsed'[p] = {}
      BY <1>a, <2>1 DEF IInv, TypeOK
    <3>2. \A q \in Pass : q # p =>
            pc'[q] = pc[q] /\ batch'[q] = batch[q] /\ lapsed'[q] = lapsed[q]
      BY <1>a, <2>1 DEF IInv, TypeOK
    <3> QED
      BY <1>2, <3>1, <3>2 DEF IInv, PassInv, Executing
  <2>2. CASE batch[p] # {c}
    <3>1. \A q \in Pass : batch'[q] \subseteq batch[q] /\ lapsed'[q] \subseteq batch'[q]
      <4>1. \A q \in Pass : q # p => batch'[q] = batch[q] /\ lapsed'[q] = lapsed[q]
        BY <1>b, <2>2 DEF IInv, TypeOK
      <4>2. batch'[p] = batch[p] \ {c} /\ lapsed'[p] = lapsed[p] \ {c}
        BY <1>b, <2>2 DEF IInv, TypeOK
      <4>3. \A q \in Pass : lapsed[q] \subseteq batch[q]
        BY DEF IInv, PassInv
      <4> QED
        BY <4>1, <4>2, <4>3
    <3>2. \A q \in Pass : /\ pc'[q] = "idle" => batch'[q] = {}
                          /\ pc'[q] \in Executing => batch'[q] # {}
      <4>1. batch[p] \ {c} # {}
        BY <1>1, <2>2
      <4>2. pc'[p] = "execute" /\ batch'[p] # {}
        BY <1>b, <2>2, <4>1 DEF IInv, TypeOK
      <4>3. \A q \in Pass : q # p => pc'[q] = pc[q] /\ batch'[q] = batch[q]
        BY <1>b, <2>2 DEF IInv, TypeOK
      <4> QED
        BY <4>2, <4>3 DEF IInv, PassInv
    <3> QED
      BY <1>2, <3>1, <3>2 DEF IInv, PassInv
  <2> QED
    BY <2>1, <2>2
<1>10. \A r \in Run : r # c =>
         /\ status'[r] = status[r]
         /\ claimedBy'[r] = claimedBy[r]
         /\ r \in leaseOut' <=> r \in leaseOut
  BY <1>1, <1>3 DEF IInv, TypeOK
<1>11. ASSUME OnePassPerWorker, OwnInv
       PROVE  ClaimInv'
  <2> SUFFICES ASSUME NEW q \in Pass, NEW r \in batch'[q]
               PROVE  /\ claimedBy'[r] = WorkerOf[q] =>
                           /\ attempts'[r] = snap'[q][r]
                           /\ r \in leaseOut' <=> r \in lapsed'[q]
                      /\ claimedBy'[r] # WorkerOf[q] => r \in lapsed'[q]
    BY DEF ClaimInv
  <2>1. CASE q = p
    <3>1. /\ r \in batch[p] /\ r # c /\ r \in Run
          /\ snap'[p][r] = snap[p][r]
          /\ r \in lapsed'[p] <=> r \in lapsed[p]
      BY <2>1, <1>1, <1>4 DEF IInv, TypeOK
    <3> QED
      BY <2>1, <3>1, <1>2, <1>10, <1>11 DEF OwnInv, ClaimInv
  <2>2. CASE q # p
    <3>1. /\ r \in batch[q] /\ r \in Run
          /\ snap'[q] = snap[q] /\ lapsed'[q] = lapsed[q]
      BY <2>2, <1>4 DEF IInv, TypeOK
    <3>2. WorkerOf[q] # WorkerOf[p] /\ WorkerOf[q] # NoWorker
      BY <1>11, <2>2, SchedulerAssumption DEF OnePassPerWorker, Worker
    <3>3. CASE r = c /\ claimedBy[c] = WorkerOf[p]
      <4>1. claimedBy'[r] = NoWorker
        BY <1>1, <1>3, <3>3 DEF IInv, TypeOK
      <4>2. r \in lapsed[q]
        BY <1>11, <3>1, <3>2, <3>3 DEF OwnInv, ClaimInv
      <4> QED
        BY <3>1, <3>2, <4>1, <4>2
    <3>4. CASE ~ (r = c /\ claimedBy[c] = WorkerOf[p])
      <4>1. claimedBy'[r] = claimedBy[r] /\ (r \in leaseOut' <=> r \in leaseOut)
        BY <3>1, <3>4, <1>3, <1>10
      <4> QED
        BY <1>2, <1>11, <3>1, <4>1 DEF OwnInv, ClaimInv
    <3> QED
      BY <3>3, <3>4
  <2> QED
    BY <2>1, <2>2
<1>12. ASSUME OwnInv
       PROVE  DeadLetterIffExhausted'
  <2>1. CASE claimedBy[c] = WorkerOf[p]
    <3>1. attempts[c] = snap[p][c] /\ attempts[c] \in Nat
      <4>1. attempts[c] \in 0..MaxAttempts
        BY <1>1 DEF IInv, TypeOK
      <4> QED
        BY <1>1, <1>12, <2>1, <4>1, SchedulerAssumption DEF OwnInv, ClaimInv
    <3>2. /\ outcome = "failed" => attempts[c] < MaxAttempts
          /\ outcome = "dead_lettered" => attempts[c] >= MaxAttempts
      BY <1>6, <3>1, SchedulerAssumption
    <3>3. status'[c] = outcome
      BY <1>1, <1>3, <2>1 DEF IInv, TypeOK
    <3> QED
      BY <1>2, <1>10, <1>12, <3>2, <3>3 DEF OwnInv, DeadLetterIffExhausted
  <2>2. CASE claimedBy[c] # WorkerOf[p]
    BY <1>2, <1>3, <1>12, <2>2 DEF OwnInv, DeadLetterIffExhausted
  <2> QED
    BY <2>1, <2>2
<1> QED
  BY <1>7, <1>8, <1>9, <1>11, <1>12 DEF IInv, OwnInv

LEMMA OperatorRetryKeepsInv ==
  ASSUME IInv, NEW r \in Run, OperatorRetry(r)
  PROVE  IInv' /\ (OwnInv => OwnInv')
<1> USE DEF OperatorRetry, IInv, pass
<1>1. TypeOK'
  BY SchedulerAssumption DEF TypeOK
<1>2. claimedBy[r] = NoWorker /\ claimedBy' = claimedBy
  BY DEF TypeOK, RowInv
<1>3. r \notin leaseOut /\ leaseOut' = leaseOut
  BY DEF RowInv
<1>4. RowInv'
  BY <1>2, <1>3 DEF TypeOK, RowInv
<1>5. PassInv'
  BY DEF PassInv
<1>6. ASSUME OwnInv
      PROVE  ClaimInv' /\ DeadLetterIffExhausted'
  <2>1. \A p \in Pass : WorkerOf[p] # NoWorker
    BY SchedulerAssumption DEF Worker
  <2>2. ClaimInv'
    BY <1>2, <1>3, <1>6, <2>1 DEF OwnInv, TypeOK, ClaimInv
  <2>3. DeadLetterIffExhausted'
    BY <1>6, SchedulerAssumption DEF OwnInv, TypeOK, DeadLetterIffExhausted
  <2> QED
    BY <2>2, <2>3
<1> QED
  BY <1>1, <1>4, <1>5, <1>6 DEF OwnInv

LEMMA TimeKeepsInv ==
  ASSUME IInv, NEW r \in Run,
         RetryComesDue(r) \/ OrphanLeaseExpires(r) \/ Overrun(r)
  PROVE  IInv' /\ (OwnInv => OwnInv')
<1>1. CASE RetryComesDue(r)
  BY <1>1 DEF RetryComesDue, pass, IInv, TypeOK, RowInv, PassInv, OwnInv, ClaimInv, DeadLetterIffExhausted
<1>2. CASE OrphanLeaseExpires(r)
  BY <1>2 DEF OrphanLeaseExpires, Holds, OwnsRun, pass, IInv, TypeOK, RowInv, PassInv, OwnInv,
              ClaimInv, DeadLetterIffExhausted
<1>3. CASE Overrun(r)
  <2>1. faults' \in 0..MaxFaults
    BY <1>3, SchedulerAssumption DEF Overrun, Fault, IInv, TypeOK
  <2>2. /\ leaseOut' = leaseOut \union {r}
        /\ status[r] = "running"
        /\ lapsed' = [p \in Pass |-> IF r \in batch[p] /\ claimedBy[r] = WorkerOf[p]
                                     THEN lapsed[p] \union {r} ELSE lapsed[p]]
        /\ UNCHANGED <<due, nruns, status, attempts, claimedBy, retryDue, pc, batch,
                       snap, dispatched, retries>>
    BY <1>3 DEF Overrun, Holds, OwnsRun
  <2>3. TypeOK' /\ RowInv' /\ PassInv'
    BY <2>1, <2>2 DEF IInv, TypeOK, RowInv, PassInv
  <2>4. OwnInv => ClaimInv' /\ DeadLetterIffExhausted'
    BY <2>2 DEF IInv, TypeOK, OwnInv, ClaimInv, DeadLetterIffExhausted
  <2> QED
    BY <2>3, <2>4 DEF IInv, OwnInv
<1> QED
  BY <1>1, <1>2, <1>3

LEMMA JobComesDueKeepsInv ==
  ASSUME IInv, NEW j \in Job, JobComesDue(j)
  PROVE  IInv' /\ (OwnInv => OwnInv')
<1>1. due' \in Seq(Job) /\ Len(due') = Len(due) + 1 /\ Len(due) \in Nat
  BY AppendProperties, LenProperties DEF JobComesDue, IInv, TypeOK
<1>2. nruns + Len(due) < NRuns /\ UNCHANGED <<runs, pass, dispatched, retries, faults>>
  BY DEF JobComesDue
<1>3. TypeOK'
  BY <1>1, <1>2 DEF IInv, TypeOK, runs, pass
<1>4. RowInv'
  BY <1>1, <1>2, SchedulerAssumption DEF IInv, TypeOK, RowInv, runs
<1>5. PassInv'
  BY <1>2 DEF IInv, PassInv, runs, pass
<1>6. OwnInv => ClaimInv' /\ DeadLetterIffExhausted'
  BY <1>2 DEF OwnInv, ClaimInv, DeadLetterIffExhausted, runs, pass
<1> QED
  BY <1>3, <1>4, <1>5, <1>6 DEF IInv, OwnInv
-----------------------------------------------------------------------------
LEMMA NextKeepsInv ==
  IInv /\ [Next]_vars => IInv' /\ (OnePassPerWorker /\ OwnInv => OwnInv')
<1> SUFFICES ASSUME IInv, [Next]_vars
             PROVE  IInv' /\ (OnePassPerWorker /\ OwnInv => OwnInv')
  OBVIOUS
<1>f. faults \in 0..MaxFaults /\ (Fault => faults' \in 0..MaxFaults)
  BY SchedulerAssumption DEF IInv, TypeOK, Fault
<1>d. dispatched \subseteq Run
  BY DEF IInv, TypeOK
<1>1. ASSUME NEW p \in Pass, Tick(p)
      PROVE  IInv' /\ (OnePassPerWorker /\ OwnInv => OwnInv')
  <2>1. CASE ClaimRetries(p)
    BY <2>1, ClaimRetriesKeepsInv
  <2>2. CASE ClaimDue(p)
    BY <2>2, ClaimDueKeepsInv
  <2>3. CASE ClaimDueThrows(p)
    BY <2>3, <1>f, EndPassKeepsInv DEF ClaimDueThrows
  <2>4. CASE Dispatch(p)
    <3>1. Current(p) \in Run
      BY <2>4, CurrentInBatch DEF Dispatch, IInv, PassInv, Executing
    <3> QED
      BY <2>4, <3>1, <1>f, <1>d, MoveKeepsInv DEF Dispatch, Executing
  <2>5. CASE DispatchThrows(p)
    BY <2>5, <1>f, <1>d, MoveKeepsInv DEF DispatchThrows, Executing
  <2>6. CASE RecordSuccess(p)
    BY <2>6, FinishKeepsInv DEF RecordSuccess, Executing
  <2>7. CASE RecordFailure(p)
    <3>1. CASE Terminal(p)
      BY <2>7, <3>1, FinishKeepsInv DEF RecordFailure, Executing
    <3>2. CASE ~ Terminal(p)
      BY <2>7, <3>2, FinishKeepsInv DEF RecordFailure, Executing
    <3> QED
      BY <3>1, <3>2
  <2> QED
    BY <1>1, <2>1, <2>2, <2>3, <2>4, <2>5, <2>6, <2>7 DEF Tick
<1>2. ASSUME NEW p \in Pass, Crash(p)
      PROVE  IInv' /\ (OwnInv => OwnInv')
  BY <1>2, <1>f, EndPassKeepsInv DEF Crash
<1>3. ASSUME NEW p \in Pass, DatabaseError(p)
      PROVE  IInv' /\ (OwnInv => OwnInv')
  <2>1. Fault /\ UNCHANGED <<due, runs, dispatched, retries>>
    BY <1>3 DEF DatabaseError
  <2>2. CASE pc[p] = "succeed" /\ pc' = [pc EXCEPT ![p] = "fail"] /\ UNCHANGED <<batch, snap, lapsed>>
    BY <2>1, <2>2, <1>f, <1>d, MoveKeepsInv DEF Executing
  <2>3. CASE pc[p] = "fail" /\ EndPass(p)
    BY <2>1, <2>3, <1>f, EndPassKeepsInv
  <2> QED
    BY <1>3, <2>2, <2>3 DEF DatabaseError
<1>4. ASSUME NEW j \in Job, JobComesDue(j)
      PROVE  IInv' /\ (OwnInv => OwnInv')
  BY <1>4, JobComesDueKeepsInv
<1>5. ASSUME NEW r \in Run, OperatorRetry(r)
      PROVE  IInv' /\ (OwnInv => OwnInv')
  BY <1>5, OperatorRetryKeepsInv
<1>6. ASSUME NEW r \in Run, RetryComesDue(r) \/ OrphanLeaseExpires(r) \/ Overrun(r)
      PROVE  IInv' /\ (OwnInv => OwnInv')
  BY <1>6, TimeKeepsInv
<1>7. CASE UNCHANGED vars
  BY <1>7 DEF vars, IInv, TypeOK, RowInv, PassInv, OwnInv, ClaimInv, DeadLetterIffExhausted
<1> QED
  BY <1>1, <1>2, <1>3, <1>4, <1>5, <1>6, <1>7 DEF Next

(* In every deployment the variables keep their types: no run has more     *)
(* attempts than max_attempts, and a pass never inserts a run too many.    *)
THEOREM TypeCorrect == Spec => []TypeOK
<1>1. Init => IInv
  BY InitInv DEF OwnInv
<1>2. IInv /\ [Next]_vars => IInv'
  BY NextKeepsInv
<1>3. IInv => TypeOK
  BY DEF IInv
<1> QED
  BY <1>1, <1>2, <1>3, PTL DEF Spec

(* The invariant that needs one pass per process.                          *)
LEMMA Ownership == ASSUME OnePassPerWorker PROVE Spec => []OwnInv
<1>1. OwnInv /\ [Next]_vars => OwnInv'
  BY NextKeepsInv DEF OwnInv
<1> QED
  BY <1>1, InitInv, PTL DEF Spec

(* With one pass per process no run is stuck in "failed" with its attempts *)
(* used up, and none is dead-lettered early.                               *)
THEOREM DeadLetterCorrect ==
  ASSUME OnePassPerWorker PROVE Spec => []DeadLetterIffExhausted
<1>1. OwnInv => DeadLetterIffExhausted
  BY DEF OwnInv
<1> QED
  BY <1>1, Ownership, PTL

(* With one pass per process two passes have a run in hand only when its   *)
(* lease ran out under one of them.                                        *)
THEOREM LiveAttemptUnique ==
  ASSUME OnePassPerWorker PROVE Spec => []OneLiveAttempt
<1>1. OwnInv => OneLiveAttempt
  <2> SUFFICES ASSUME OwnInv, NEW p \in Pass, NEW q \in Pass, p # q,
                      NEW r \in batch[p], r \in batch[q]
               PROVE  r \in lapsed[p] \/ r \in lapsed[q]
    BY DEF OneLiveAttempt
  <2>1. WorkerOf[p] # WorkerOf[q]
    BY DEF OnePassPerWorker
  <2> QED
    BY <2>1 DEF OwnInv, ClaimInv
<1> QED
  BY <1>1, Ownership, PTL
-----------------------------------------------------------------------------
(* A success is nobody's claim, is not due for a retry, and is no new row: *)
(* there is no WHERE clause it meets.                                      *)
LEMMA SuccessKept ==
  ASSUME IInv, [Next]_vars, NEW r \in Run, status[r] = "succeeded"
  PROVE  status'[r] = "succeeded" /\ attempts'[r] = attempts[r] /\ claimedBy'[r] = NoWorker
<1>1. claimedBy[r] = NoWorker /\ r \in 1..nruns /\ nruns \in Nat
  BY SchedulerAssumption DEF IInv, TypeOK, RowInv, Run
<1>2. \A p \in Pass : WorkerOf[p] # NoWorker
  BY SchedulerAssumption DEF Worker
<1>3. /\ status \in [Run -> {"none", "running", "succeeded", "failed", "dead_lettered"}]
      /\ attempts \in [Run -> 0..MaxAttempts]
      /\ claimedBy \in [Run -> Worker \union {NoWorker}]
  BY DEF IInv, TypeOK
<1>4. ASSUME NEW p \in Pass, ClaimRetries(p)
      PROVE  status'[r] = "succeeded" /\ attempts'[r] = attempts[r] /\ claimedBy'[r] = NoWorker
  <2>1. r \notin Exhausted /\ r \notin Oldest(BatchSize, Retryable)
    BY DEF Exhausted, Oldest, Retryable, LeaseExpired
  <2> QED
    BY <1>1, <1>4, <2>1 DEF ClaimRetries
<1>5. ASSUME NEW p \in Pass, ClaimDue(p)
      PROVE  status'[r] = "succeeded" /\ attempts'[r] = attempts[r] /\ claimedBy'[r] = NoWorker
  <2>1. r \notin (nruns + 1)..(nruns + Picked(p))
    BY <1>1
  <2> QED
    BY <1>1, <1>5, <2>1 DEF ClaimDue
<1>6. ASSUME NEW p \in Pass, NEW outcome, Finish(p, outcome), batch[p] # {}
      PROVE  status'[r] = "succeeded" /\ attempts'[r] = attempts[r] /\ claimedBy'[r] = NoWorker
  <2>1. OwnsRun(p, Current(p)) => r # Current(p)
    BY <1>1, <1>2 DEF OwnsRun
  <2>2. Current(p) \in Run
    BY <1>6, CurrentInBatch DEF IInv
  <2> QED
    BY <1>1, <1>3, <1>6, <2>1, <2>2 DEF Finish
<1>7. ASSUME NEW q \in Run, OperatorRetry(q)
      PROVE  status'[r] = "succeeded" /\ attempts'[r] = attempts[r] /\ claimedBy'[r] = NoWorker
  BY <1>1, <1>3, <1>7 DEF OperatorRetry
<1>8. \A p \in Pass : pc[p] \in Executing => batch[p] # {}
  BY DEF IInv, PassInv
<1>9. ASSUME UNCHANGED <<status, attempts, claimedBy>>
      PROVE  status'[r] = "succeeded" /\ attempts'[r] = attempts[r] /\ claimedBy'[r] = NoWorker
  BY <1>1, <1>9
<1>10. CASE \E p \in Pass : Tick(p) \/ Crash(p) \/ DatabaseError(p)
  <2>1. PICK p \in Pass : Tick(p) \/ Crash(p) \/ DatabaseError(p)
    BY <1>10
  <2>2. CASE RecordSuccess(p)
    BY <1>6, <1>8, <2>2 DEF RecordSuccess, Executing
  <2>3. CASE RecordFailure(p)
    BY <1>6, <1>8, <2>3 DEF RecordFailure, Executing
  <2>4. CASE ClaimRetries(p) \/ ClaimDue(p)
    BY <1>4, <1>5, <2>4
  <2>5. CASE \/ ClaimDueThrows(p) \/ Dispatch(p) \/ DispatchThrows(p)
             \/ Crash(p) \/ DatabaseError(p)
    BY <1>9, <2>5 DEF ClaimDueThrows, Dispatch, DispatchThrows, Crash, DatabaseError, runs
  <2> QED
    BY <2>1, <2>2, <2>3, <2>4, <2>5 DEF Tick
<1>11. CASE \E j \in Job : JobComesDue(j)
  BY <1>9, <1>11 DEF JobComesDue, runs
<1>12. CASE \E q \in Run : OperatorRetry(q) \/ RetryComesDue(q)
                           \/ OrphanLeaseExpires(q) \/ Overrun(q)
  BY <1>7, <1>9, <1>12 DEF RetryComesDue, OrphanLeaseExpires, Overrun
<1>13. CASE UNCHANGED vars
  BY <1>9, <1>13 DEF vars
<1> QED
  BY <1>10, <1>11, <1>12, <1>13 DEF Next

(* In every deployment, a run that succeeded is never changed again, also  *)
(* when several passes share the worker id that fences the updates.        *)
THEOREM SuccessFinal == Spec => SuccessIsFinal
<1>1. Init => IInv
  BY InitInv DEF OwnInv
<1>2. IInv /\ [Next]_vars => IInv'
  BY NextKeepsInv
<1>3. IInv /\ [Next]_vars =>
        [\A r \in Run : status[r] = "succeeded" =>
           status'[r] = "succeeded" /\ attempts'[r] = attempts[r] /\ claimedBy'[r] = NoWorker]_vars
  BY SuccessKept
<1> QED
  BY <1>1, <1>2, <1>3, PTL DEF Spec, SuccessIsFinal

(* A pass about to record a success has dispatched the run.                *)
DispatchInv ==
  /\ SuccessWasDispatched
  /\ \A p \in Pass : pc[p] = "succeed" =>
       \A r \in batch[p] : (\A q \in batch[p] : r <= q) => r \in dispatched

LEMMA DispatchInvKept ==
  ASSUME IInv, DispatchInv, [Next]_vars
  PROVE  DispatchInv'
<1>1. /\ pc \in [Pass -> {"idle", "claimed"} \union Executing]
      /\ batch \in [Pass -> SUBSET Run]
      /\ status \in [Run -> {"none", "running", "succeeded", "failed", "dead_lettered"}]
  BY DEF IInv, TypeOK
<1>2. dispatched \subseteq dispatched'
  BY DEF Next, vars, Tick, ClaimRetries, ClaimDue, ClaimDueThrows, Dispatch, DispatchThrows,
         RecordSuccess, RecordFailure, Finish, Crash, DatabaseError, JobComesDue,
         OperatorRetry, RetryComesDue, OrphanLeaseExpires, Overrun
<1>3. \A p \in Pass : pc[p] \in Executing => batch[p] # {}
  BY DEF IInv, PassInv
(* A pass that moves anywhere but to "succeed" keeps the second part.      *)
<1>4. ASSUME NEW p \in Pass, NEW b,
             \/ pc' = pc /\ batch' = batch
             \/ /\ \E to \in {"idle", "claimed", "execute", "fail"} : pc' = [pc EXCEPT ![p] = to]
                /\ batch' = [batch EXCEPT ![p] = b]
      PROVE  \A q \in Pass : pc'[q] = "succeed" =>
               \A r \in batch'[q] : (\A s \in batch'[q] : r <= s) => r \in dispatched'
  BY <1>1, <1>2, <1>4 DEF DispatchInv
(* A step that makes no success keeps the first.                           *)
<1>5. ASSUME \A r \in Run : status'[r] = "succeeded" => status[r] = "succeeded"
      PROVE  SuccessWasDispatched'
  BY <1>2, <1>5 DEF DispatchInv, SuccessWasDispatched
<1>6. ASSUME UNCHANGED status
      PROVE  SuccessWasDispatched'
  BY <1>5, <1>6
<1>7. ASSUME NEW p \in Pass, ClaimRetries(p)
      PROVE  DispatchInv'
  BY <1>4, <1>5, <1>7 DEF ClaimRetries, DispatchInv
<1>8. ASSUME NEW p \in Pass, ClaimDue(p)
      PROVE  DispatchInv'
  <2>1. \A r \in Run : status'[r] = "succeeded" => status[r] = "succeeded"
    BY <1>8 DEF ClaimDue
  <2>2. \E to \in {"idle", "execute"} : pc' = [pc EXCEPT ![p] = to]
    BY <1>8 DEF ClaimDue
  <2>3. \E b : batch' = [batch EXCEPT ![p] = b]
    BY <1>8 DEF ClaimDue
  <2> QED
    BY <1>4, <1>5, <2>1, <2>2, <2>3 DEF DispatchInv
<1>9. ASSUME NEW p \in Pass, Dispatch(p)
      PROVE  DispatchInv'
  <2>1. Current(p) \in batch[p] /\ \A q \in batch[p] : Current(p) <= q
    BY <1>3, <1>9, CurrentInBatch, CurrentIsOldest DEF Dispatch, Executing, IInv
  <2>2. \A r \in batch[p] : (\A q \in batch[p] : r <= q) => r = Current(p)
    BY <1>1, <2>1 DEF Run
  <2>3. /\ dispatched' = dispatched \union {Current(p)}
        /\ pc' = [pc EXCEPT ![p] = "succeed"]
        /\ batch' = batch /\ status' = status
    BY <1>9 DEF Dispatch, runs
  <2> QED
    BY <1>1, <1>6, <2>2, <2>3 DEF DispatchInv
<1>10. ASSUME NEW p \in Pass, NEW outcome, Finish(p, outcome), pc[p] \in Executing,
              outcome = "succeeded" => pc[p] = "succeed"
       PROVE  DispatchInv'
  <2>1. Current(p) \in batch[p] /\ \A q \in batch[p] : Current(p) <= q
    BY <1>3, <1>10, CurrentInBatch, CurrentIsOldest DEF IInv
  <2>2. outcome = "succeeded" => Current(p) \in dispatched
    BY <1>10, <2>1 DEF DispatchInv
  <2>3. status' = status \/ status' = [status EXCEPT ![Current(p)] = outcome]
    BY <1>10 DEF Finish
  <2>4. SuccessWasDispatched'
    BY <1>1, <1>2, <2>2, <2>3 DEF DispatchInv, SuccessWasDispatched
  <2>5. \E to \in {"idle", "execute"} : pc' = [pc EXCEPT ![p] = to]
    BY <1>10 DEF Finish, NextRun, EndPass
  <2>6. \E b : batch' = [batch EXCEPT ![p] = b]
    BY <1>10 DEF Finish, NextRun, EndPass
  <2> QED
    BY <1>4, <2>4, <2>5, <2>6 DEF DispatchInv
<1>11. ASSUME NEW p \in Pass, EndPass(p), UNCHANGED runs
       PROVE  DispatchInv'
  BY <1>4, <1>6, <1>11 DEF EndPass, runs, DispatchInv
<1>12. ASSUME NEW p \in Pass, pc' = [pc EXCEPT ![p] = "fail"], UNCHANGED <<runs, batch>>
       PROVE  DispatchInv'
  <2>1. batch' = [batch EXCEPT ![p] = batch[p]]
    BY <1>1, <1>12
  <2> QED
    BY <1>4, <1>6, <1>12, <2>1 DEF runs, DispatchInv
<1>13. CASE \E p \in Pass : Tick(p) \/ Crash(p) \/ DatabaseError(p)
  <2>1. PICK p \in Pass : Tick(p) \/ Crash(p) \/ DatabaseError(p)
    BY <1>13
  <2>2. CASE ClaimRetries(p) \/ ClaimDue(p) \/ Dispatch(p)
    BY <1>7, <1>8, <1>9, <2>2
  <2>3. CASE RecordSuccess(p)
    BY <1>10, <2>3 DEF RecordSuccess, Executing
  <2>4. CASE RecordFailure(p)
    <3>1. (IF Terminal(p) THEN "dead_lettered" ELSE "failed") # "succeeded"
      OBVIOUS
    <3> QED
      BY <1>10, <2>4, <3>1 DEF RecordFailure, Executing
  <2>5. CASE ClaimDueThrows(p) \/ Crash(p)
    BY <1>11, <2>5 DEF ClaimDueThrows, Crash
  <2>6. CASE DispatchThrows(p)
    BY <1>12, <2>6 DEF DispatchThrows
  <2>7. CASE DatabaseError(p)
    BY <1>11, <1>12, <2>7 DEF DatabaseError
  <2> QED
    BY <2>1, <2>2, <2>3, <2>4, <2>5, <2>6, <2>7 DEF Tick
<1>14. CASE \E j \in Job : JobComesDue(j)
  BY <1>2, <1>6, <1>14 DEF JobComesDue, runs, pass, DispatchInv
<1>15. CASE \E r \in Run : OperatorRetry(r)
  <2>1. \A r \in Run : status'[r] = "succeeded" => status[r] = "succeeded"
    BY <1>1, <1>15 DEF OperatorRetry
  <2> QED
    BY <1>2, <1>5, <1>15, <2>1 DEF OperatorRetry, pass, DispatchInv
<1>16. CASE \E r \in Run : RetryComesDue(r) \/ OrphanLeaseExpires(r) \/ Overrun(r)
  BY <1>2, <1>6, <1>16 DEF RetryComesDue, OrphanLeaseExpires, Overrun, pass, DispatchInv
<1>17. CASE UNCHANGED vars
  BY <1>2, <1>6, <1>17 DEF vars, DispatchInv
<1> QED
  BY <1>13, <1>14, <1>15, <1>16, <1>17 DEF Next

(* In every deployment, a run is recorded as succeeded only if its handler *)
(* returned in some attempt.                                               *)
THEOREM SuccessDispatched == Spec => []SuccessWasDispatched
<1>1. Init => IInv /\ DispatchInv
  BY InitInv DEF OwnInv, Init, DispatchInv, SuccessWasDispatched
<1>2. IInv /\ DispatchInv /\ [Next]_vars => IInv' /\ DispatchInv'
  BY NextKeepsInv, DispatchInvKept
<1>3. DispatchInv => SuccessWasDispatched
  BY DEF DispatchInv
<1> QED
  BY <1>1, <1>2, <1>3, PTL DEF Spec
=============================================================================
