------------------------------ MODULE RagProofs -------------------------------
(***************************************************************************)
(* Proofs about RagIngestion for any number of documents, chunks, workers, *)
(* generations, attempts, rebuilds and faults, with either vector store.   *)
(*                                                                         *)
(* What the claim token fences (types, dead letters, successes, purges)    *)
(* holds whatever happens.  That an indexed document is served holds while *)
(* each document has one job and no live worker loses its lease: then a    *)
(* job that is in hand is its worker's alone (HandInv), and what the       *)
(* worker has stored so far is what its place says (ServeInv).             *)
(***************************************************************************)
EXTENDS RagIngestion, FiniteSetTheorems, TLAPS

-----------------------------------------------------------------------------
(* Types.                                                                  *)

(* The rebuild command appends the new jobs in some order.                 *)
LEMMA RebuildKeepsSequence ==
  ASSUME TypeOK, NEW g \in Gen, RebuildInsert(g)
  PROVE  created' \in Seq(Job)
<1> DEFINE D == {d \in active : docStatus[d] # "deleted"}
           fresh == {j \in RowsOf(g, D) : status[j] = "none"}
           Jobs == {[doc |-> d, kind |-> g] : d \in active}
           jobOf == [d \in active |-> [doc |-> d, kind |-> g]]
<1>1. IsFiniteSet(fresh)
  <2>1. IsFiniteSet(active)
    BY RagAssumption, FS_Subset DEF TypeOK
  <2>2. jobOf \in Surjection(active, Jobs)
    BY DEF Surjection
  <2>3. IsFiniteSet(Jobs)
    <3> HIDE DEF Jobs, jobOf
    <3> QED
      BY <2>1, <2>2, FS_Surjection
  <2>4. fresh \subseteq Jobs
    BY DEF Job, RowsOf
  <2> QED
    BY <2>3, <2>4, FS_Subset
<1>2. Cardinality(fresh) \in Nat
  BY <1>1, FS_CardinalityType
<1>3. PICK s \in [1..Cardinality(fresh) -> fresh] : created' = created \o s
  BY DEF RebuildInsert
<1>4. s \in Seq(Job)
  <2>1. \A n \in Nat : \A f \in [1..n -> Job] : f \in Seq(Job)
    OBVIOUS
  <2>2. s \in [1..Cardinality(fresh) -> Job]
    BY DEF RowsOf
  <2> HIDE DEF fresh
  <2> QED
    BY <1>2, <2>1, <2>2
<1> QED
  BY <1>3, <1>4 DEF TypeOK

LEMMA InitTypes == Init => TypeOK
BY RagAssumption DEF Init, TypeOK, Job, Kind

LEMMA WorkKeepsTypes ==
  ASSUME TypeOK, NEW w \in Worker, Work(w)
  PROVE  TypeOK'
<1> USE RagAssumption DEF TypeOK, docs, jobs, counters, workers, EndJob, Asserting,
      Locking, Asserted, Locked
<1>0. pc[w] # "idle" => job[w].doc \in Doc
  BY DEF Job
<1>1. ASSUME Claim(w) PROVE TypeOK'
  <2>1. PICK j \in Job :
          /\ FirstClaimable(j)
          /\ status' = [status EXCEPT ![j] = "running"]
          /\ attempts' = [attempts EXCEPT ![j] = @ + 1]
          /\ claimedBy' = [claimedBy EXCEPT ![j] = w]
          /\ leaseOut' = leaseOut \ {j}
          /\ job' = [job EXCEPT ![w] = j]
          /\ pc' = [pc EXCEPT ![w] = IF j.kind = "delete" THEN "purge" ELSE "read"]
    BY <1>1 DEF Claim
  <2>2. attempts[j] < MaxAttempts
    BY <2>1 DEF FirstClaimable, Claimable
  <2>3. attempts' \in [Job -> 0..MaxAttempts]
    BY <2>1, <2>2
  <2> QED
    BY <1>1, <2>1, <2>3 DEF Claim
<1>2. ASSUME AssertLease(w) PROVE TypeOK'
  BY <1>2 DEF AssertLease
<1>3. ASSUME LeaseLost(w) PROVE TypeOK'
  BY <1>3 DEF LeaseLost
<1>4. ASSUME ReadSource(w) PROVE TypeOK'
  BY <1>4 DEF ReadSource
<1>5. ASSUME StoreChunks(w) PROVE TypeOK'
  BY <1>0, <1>5 DEF StoreChunks
<1>6. ASSUME ClearVectors(w) PROVE TypeOK'
  BY <1>6 DEF ClearVectors
<1>7. ASSUME WriteVectors(w) PROVE TypeOK'
  BY <1>0, <1>7 DEF WriteVectors
<1>8. ASSUME MarkIndexed(w) PROVE TypeOK'
  BY <1>0, <1>8 DEF MarkIndexed
<1>9. ASSUME PurgeVectors(w) PROVE TypeOK'
  BY <1>9 DEF PurgeVectors
<1>10. ASSUME PurgeRows(w) PROVE TypeOK'
  BY <1>10 DEF PurgeRows
<1>11. ASSUME RemoveFile(w) PROVE TypeOK'
  BY <1>11 DEF RemoveFile, Fault
<1>12. ASSUME Succeed(w) PROVE TypeOK'
  BY <1>12 DEF Succeed
<1>13. ASSUME Throws(w) PROVE TypeOK'
  BY <1>13 DEF Throws
<1>14. ASSUME Fail(w) PROVE TypeOK'
  BY <1>14 DEF Fail, FailedDocument
<1> QED
  BY <1>1, <1>2, <1>3, <1>4, <1>5, <1>6, <1>7, <1>8, <1>9, <1>10, <1>11, <1>12, <1>13, <1>14 DEF Work

LEMMA StepKeepsTypes ==
  ASSUME TypeOK, Next
  PROVE  TypeOK'
<1> USE RagAssumption DEF TypeOK, docs, jobs, counters, workers
<1>1. ASSUME NEW d \in Doc, Create(d) PROVE TypeOK'
  <2>1. [doc |-> d, kind |-> "ingest"] \in Job
    BY DEF Job, Kind
  <2> QED
    BY <1>1, <2>1 DEF Create, InsertJob
<1>2. ASSUME NEW d \in Doc, QueueDelete(d) PROVE TypeOK'
  <2>1. [doc |-> d, kind |-> "delete"] \in Job
    BY DEF Job, Kind
  <2> QED
    BY <1>2, <2>1 DEF QueueDelete, InsertJob
<1>3. ASSUME NEW g \in Gen, RebuildInsert(g) \/ RebuildCommit(g) PROVE TypeOK'
  <2>1. CASE RebuildInsert(g)
    <3>1. created' \in Seq(Job)
      BY <2>1, RebuildKeepsSequence
    <3>2. listed' \in [Gen -> SUBSET Doc] /\ rebuilds' \in 0..MaxRebuilds
      BY <2>1 DEF RebuildInsert
    <3> QED
      BY <2>1, <3>1, <3>2 DEF RebuildInsert
  <2>2. CASE RebuildCommit(g)
    BY <2>2 DEF RebuildCommit
  <2> QED
    BY <1>3, <2>1, <2>2
<1>4. ASSUME NEW w \in Worker, Work(w) PROVE TypeOK'
  BY <1>4, WorkKeepsTypes
<1>5. ASSUME NEW w \in Worker, Crash(w) \/ HeartbeatFails(w) PROVE TypeOK'
  <2>1. faults' \in 0..MaxFaults
    BY <1>5 DEF Crash, HeartbeatFails, Fault
  <2>2. CASE Crash(w)
    BY <2>1, <2>2 DEF Crash, EndJob
  <2>3. CASE HeartbeatFails(w)
    BY <2>1, <2>3 DEF HeartbeatFails
  <2> QED
    BY <1>5, <2>2, <2>3
<1>6. ASSUME NEW j \in Job, RetryComesDue(j) \/ OrphanLeaseExpires(j) \/ Overrun(j)
      PROVE TypeOK'
  BY <1>6 DEF RetryComesDue, OrphanLeaseExpires, Overrun
<1> QED
  BY <1>1, <1>2, <1>3, <1>4, <1>5, <1>6 DEF Next

(* Every variable keeps its type, and a worker that is not idle has a job  *)
(* in hand (rag-ingestion.worker.ts:53-92).                                *)
THEOREM TypeCorrect == Spec => []TypeOK
<1>1. TypeOK /\ UNCHANGED vars => TypeOK'
  BY DEF vars, TypeOK
<1> QED
  BY <1>1, InitTypes, StepKeepsTypes, PTL DEF Spec

-----------------------------------------------------------------------------
(* What holds whatever happens.                                            *)

LEMMA StepKeepsDeadLetter ==
  ASSUME TypeOK, DeadLetterIffExhausted, [Next]_vars
  PROVE  DeadLetterIffExhausted'
<1> USE RagAssumption DEF TypeOK, DeadLetterIffExhausted, docs, jobs
<1>1. ASSUME NEW d \in Doc, Create(d) \/ QueueDelete(d) PROVE DeadLetterIffExhausted'
  BY <1>1 DEF Create, QueueDelete, InsertJob
<1>2. ASSUME NEW g \in Gen, RebuildCommit(g) PROVE DeadLetterIffExhausted'
  BY <1>2 DEF RebuildCommit
<1>3. ASSUME NEW w \in Worker, Claim(w) PROVE DeadLetterIffExhausted'
  BY <1>3 DEF Claim
<1>4. ASSUME NEW w \in Worker, Succeed(w) PROVE DeadLetterIffExhausted'
  BY <1>4 DEF Succeed
<1>5. ASSUME NEW w \in Worker, Fail(w) PROVE DeadLetterIffExhausted'
  BY <1>5 DEF Fail, Exhausted
<1>6. ASSUME UNCHANGED <<status, attempts>> PROVE DeadLetterIffExhausted'
  BY <1>6
<1> QED
  BY <1>1, <1>2, <1>3, <1>4, <1>5, <1>6 DEF Next, Work, vars, AssertLease, LeaseLost,
     ReadSource, StoreChunks, ClearVectors, WriteVectors, MarkIndexed, PurgeVectors,
     PurgeRows, RemoveFile, Throws, Asserting, Locking, Crash, HeartbeatFails,
     RetryComesDue, OrphanLeaseExpires, Overrun, RebuildInsert

(* A job is dead-lettered exactly when its attempts are used up, whoever   *)
(* reports on it and however often it is rebuilt                           *)
(* (rag-ingestion.worker.ts:128-142).                                      *)
THEOREM DeadLetterCorrect == Spec => []DeadLetterIffExhausted
<1>1. Init => DeadLetterIffExhausted
  BY DEF Init, DeadLetterIffExhausted
<1> QED
  BY <1>1, TypeCorrect, StepKeepsDeadLetter, PTL DEF Spec

LEMMA StepKeepsSuccess ==
  ASSUME TypeOK, [Next]_vars, NEW j \in Job, status[j] = "succeeded"
  PROVE  status'[j] \in {"succeeded", "queued"}
<1> USE DEF TypeOK, docs, jobs
<1>1. ASSUME NEW d \in Doc, Create(d) \/ QueueDelete(d)
      PROVE  status'[j] \in {"succeeded", "queued"}
  BY <1>1 DEF Create, QueueDelete, InsertJob
<1>2. ASSUME NEW g \in Gen, RebuildCommit(g)
      PROVE  status'[j] \in {"succeeded", "queued"}
  BY <1>2 DEF RebuildCommit
<1>3. ASSUME NEW w \in Worker, Claim(w) PROVE status'[j] = "succeeded"
  BY <1>3 DEF Claim, FirstClaimable, Claimable
<1>4. ASSUME NEW w \in Worker, Succeed(w) \/ Fail(w) PROVE status'[j] = "succeeded"
  BY <1>4 DEF Succeed, Fail, Owns
<1>5. ASSUME UNCHANGED status PROVE status'[j] = "succeeded"
  BY <1>5
<1> QED
  BY <1>1, <1>2, <1>3, <1>4, <1>5 DEF Next, Work, vars, AssertLease, LeaseLost,
     ReadSource, StoreChunks, ClearVectors, WriteVectors, MarkIndexed, PurgeVectors,
     PurgeRows, RemoveFile, Throws, Asserting, Locking, Crash, HeartbeatFails,
     RetryComesDue, OrphanLeaseExpires, Overrun, RebuildInsert

(* No worker takes back a success, late as its report may be               *)
(* (rag-ingestion.worker.ts:94-110).                                       *)
THEOREM SuccessFinal == Spec => SuccessIsFinal
<1>1. TypeOK /\ [Next]_vars
        => [\A j \in Job :
              status[j] = "succeeded" => status'[j] \in {"succeeded", "queued"}]_vars
  BY StepKeepsSuccess
<1> QED
  BY <1>1, TypeCorrect, PTL DEF Spec, SuccessIsFinal

(* What PurgedIsFinal says of one document and one step.                   *)
StaysPurged(d) ==
  /\ Purged(d)'
  /\ d \in chunks' => d \in chunks
  /\ points'[d] \subseteq points[d]

LEMMA StepKeepsPurged ==
  ASSUME TypeOK, [Next]_vars, NEW d \in Doc, Purged(d)
  PROVE  StaysPurged(d)
<1> DEFINE Away(w) == ~ (pc[w] \in {"chunks", "clear", "write", "index"} /\ job[w].doc = d)
           Goal == /\ docStatus'[d] = "deleted" /\ d \notin file'
                   /\ \A w \in Worker : Away(w)'
                   /\ \A g \in Gen : d \notin listed'[g]
                   /\ d \in chunks' => d \in chunks
                   /\ points'[d] \subseteq points[d]
<1>0. /\ docStatus[d] = "deleted" /\ d \notin file
      /\ \A w \in Worker : Away(w)
      /\ \A g \in Gen : d \notin listed[g]
  BY DEF Purged, Ingesting
<1> SUFFICES Goal
  BY DEF StaysPurged, Purged, Ingesting
<1> USE <1>0 DEF TypeOK, docs, workers, counters
<1>1. ASSUME NEW e \in Doc, Create(e) \/ QueueDelete(e) PROVE Goal
  BY <1>1 DEF Create, QueueDelete
<1>2. ASSUME NEW g \in Gen, RebuildInsert(g) \/ RebuildCommit(g) PROVE Goal
  <2>1. CASE RebuildInsert(g)
    <3>1. \A h \in Gen : d \notin listed'[h]
      BY <2>1 DEF RebuildInsert
    <3> QED
      BY <2>1, <3>1 DEF RebuildInsert
  <2>2. CASE RebuildCommit(g)
    BY <2>2 DEF RebuildCommit
  <2> QED
    BY <1>2, <2>1, <2>2
<1>3. ASSUME NEW w \in Worker, Claim(w) PROVE Goal
  BY <1>3 DEF Claim
<1>4. ASSUME NEW w \in Worker,
             AssertLease(w) \/ LeaseLost(w) \/ Throws(w) \/ Succeed(w)
      PROVE  Goal
  <2>1. CASE AssertLease(w)
    BY <2>1 DEF AssertLease
  <2>2. CASE LeaseLost(w)
    BY <2>2 DEF LeaseLost, EndJob
  <2>3. CASE Throws(w)
    BY <2>3 DEF Throws
  <2>4. CASE Succeed(w)
    BY <2>4 DEF Succeed, EndJob
  <2> QED
    BY <1>4, <2>1, <2>2, <2>3, <2>4
<1>5. ASSUME NEW w \in Worker, ReadSource(w) PROVE Goal
  BY <1>5 DEF ReadSource, Asserting
<1>6. ASSUME NEW w \in Worker, StoreChunks(w) PROVE Goal
  BY <1>6 DEF StoreChunks, Locking
<1>7. ASSUME NEW w \in Worker, ClearVectors(w) \/ WriteVectors(w) PROVE Goal
  BY <1>7 DEF ClearVectors, WriteVectors, Asserting
<1>8. ASSUME NEW w \in Worker, MarkIndexed(w) PROVE Goal
  BY <1>8 DEF MarkIndexed, Locking, Locked
<1>9. ASSUME NEW w \in Worker, PurgeVectors(w) \/ PurgeRows(w) \/ RemoveFile(w) PROVE Goal
  BY <1>9 DEF PurgeVectors, PurgeRows, RemoveFile, Asserting, Locking
<1>10. ASSUME NEW w \in Worker, Fail(w) PROVE Goal
  BY <1>10 DEF Fail, FailedDocument, EndJob
<1>11. ASSUME NEW w \in Worker, Crash(w) \/ HeartbeatFails(w) PROVE Goal
  BY <1>11 DEF Crash, HeartbeatFails, EndJob
<1>12. ASSUME UNCHANGED <<docs, workers, listed>> PROVE Goal
  BY <1>12
<1> QED
  BY <1>1, <1>2, <1>3, <1>4, <1>5, <1>6, <1>7, <1>8, <1>9, <1>10, <1>11, <1>12
     DEF Next, Work, vars, RetryComesDue, OrphanLeaseExpires, Overrun

(* A document that is deleted, without its source, with no worker that has *)
(* read it and no rebuild that has it on its list stays so, and no passage *)
(* and no vector of it is stored again: whatever else is queued, fails or  *)
(* is repeated (rag.service.ts:299-350, rebuild-vectors.ts:15-55).         *)
THEOREM PurgedFinal == Spec => PurgedIsFinal
<1>1. TypeOK /\ [Next]_vars
        => [\A d \in Doc :
              Purged(d) => /\ Purged(d)'
                           /\ d \in chunks' => d \in chunks
                           /\ points'[d] \subseteq points[d]]_vars
  BY StepKeepsPurged DEF StaysPurged
<1> QED
  BY <1>1, TypeCorrect, PTL DEF Spec, PurgedIsFinal

-----------------------------------------------------------------------------
(* What is indexed is served, while a claim is never taken over.           *)

(* The regime: no rebuild, no delete job, and no live worker that stalls   *)
(* for longer than its lease.  Workers crash, fail and retry as they will. *)
Calm == MaxRebuilds = 0 /\ MaxOverruns = 0 /\ Deletable = {}

ingestOf(d) == [doc |-> d, kind |-> "ingest"]

(* No rebuild is under way, and a job in hand is its worker's alone and    *)
(* its lease is good.                                                      *)
HandInv ==
  /\ \A g \in Gen : listed[g] = {}
  /\ \A j \in Job :
       status[j] # "none" => j.kind = "ingest" /\ docStatus[j.doc] # "none"
  /\ \A w \in Worker : pc[w] # "idle" =>
       /\ pc[w] \notin {"purge", "purgeRows", "remove"}
       /\ status[job[w]] = "running" /\ claimedBy[job[w]] = w
       /\ job[w] \notin leaseOut

Served(d) == d \in active /\ d \in chunks /\ points[d] = Chunk

(* What a worker has stored of its document, by where it is.               *)
PlaceInv(w) ==
  LET d == job[w].doc IN
  /\ pc[w] \in {"clear", "write", "index", "succeed"} => d \in chunks
  /\ pc[w] = "write" => points[d] = Chunk \ left[w]
  /\ pc[w] \in {"index", "succeed"} => points[d] = Chunk
  /\ pc[w] = "succeed" => docStatus[d] = "indexed" /\ d \in active

DocInv(d) ==
  /\ docStatus[d] = "indexed" => status[ingestOf(d)] \in {"running", "succeeded"}
  /\ status[ingestOf(d)] = "succeeded" => Served(d)

ServeInv ==
  /\ \A w \in Worker : PlaceInv(w)
  /\ \A d \in Doc : DocInv(d)

RagInv == TypeOK /\ HandInv /\ ServeInv

LEMMA CalmStep ==
  ASSUME Calm, TypeOK, HandInv, Next
  PROVE  \/ \E d \in Doc : Create(d)
         \/ \E w \in Worker : Work(w) \/ Crash(w) \/ HeartbeatFails(w)
         \/ \E j \in Job : RetryComesDue(j) \/ OrphanLeaseExpires(j)
BY DEF Calm, TypeOK, HandInv, Next, QueueDelete, RebuildInsert, RebuildCommit, Overrun

LEMMA HandStep ==
  ASSUME Calm, TypeOK, HandInv, Next
  PROVE  HandInv'
<1> USE DEF TypeOK, docs, jobs, workers, counters
<1>1. ASSUME NEW d \in Doc, Create(d) PROVE HandInv'
  <2>1. ingestOf(d) \in Job /\ ingestOf(d).doc = d /\ ingestOf(d).kind = "ingest"
    BY DEF ingestOf, Job, Kind
  <2>2. status[ingestOf(d)] = "none"
    BY <1>1, <2>1 DEF Create, HandInv
  <2> QED
    BY <1>1, <2>1, <2>2 DEF Create, InsertJob, HandInv, ingestOf
<1>2. ASSUME NEW w \in Worker, Claim(w) PROVE HandInv'
  <2>1. PICK j \in Job :
          /\ Claimable(j)
          /\ status' = [status EXCEPT ![j] = "running"]
          /\ claimedBy' = [claimedBy EXCEPT ![j] = w]
          /\ leaseOut' = leaseOut \ {j}
          /\ job' = [job EXCEPT ![w] = j]
          /\ pc' = [pc EXCEPT ![w] = IF j.kind = "delete" THEN "purge" ELSE "read"]
    BY <1>2 DEF Claim, FirstClaimable
  <2>2. UNCHANGED <<docs, listed>>
    BY <1>2 DEF Claim
  <2>3. ASSUME NEW k \in Job, status'[k] # "none"
        PROVE  k.kind = "ingest" /\ docStatus'[k.doc] # "none"
    BY <2>1, <2>2, <2>3 DEF Claimable, HandInv
  <2>4. ASSUME NEW v \in Worker, pc'[v] # "idle"
        PROVE  /\ pc'[v] \notin {"purge", "purgeRows", "remove"}
               /\ status'[job'[v]] = "running" /\ claimedBy'[job'[v]] = v
               /\ job'[v] \notin leaseOut'
    <3>1. status[j] # "none" /\ (status[j] = "running" => j \in leaseOut)
      BY <2>1 DEF Claimable
    <3>2. CASE v = w
      BY <2>1, <3>1, <3>2 DEF HandInv
    <3>3. CASE v # w
      BY <2>1, <2>4, <3>1, <3>3 DEF HandInv
    <3> QED
      BY <3>2, <3>3
  <2> QED
    BY <2>2, <2>3, <2>4 DEF HandInv
<1>3. ASSUME NEW w \in Worker,
             AssertLease(w) \/ LeaseLost(w) \/ Throws(w)
      PROVE  HandInv'
  <2>1. CASE AssertLease(w)
    BY <2>1 DEF AssertLease, HandInv
  <2>2. CASE LeaseLost(w)
    BY <2>2 DEF LeaseLost, EndJob, HandInv
  <2>3. CASE Throws(w)
    BY <2>3 DEF Throws, HandInv, Asserted, Locked
  <2> QED
    BY <1>3, <2>1, <2>2, <2>3
<1>4. ASSUME NEW w \in Worker, ReadSource(w) \/ ClearVectors(w) \/ WriteVectors(w)
      PROVE  HandInv'
  BY <1>4 DEF ReadSource, ClearVectors, WriteVectors, Asserting, HandInv
<1>5. ASSUME NEW w \in Worker, StoreChunks(w) \/ MarkIndexed(w)
      PROVE  HandInv'
  <2>1. CASE StoreChunks(w)
    BY <2>1 DEF StoreChunks, Locking, HandInv
  <2>2. CASE MarkIndexed(w)
    BY <2>2 DEF MarkIndexed, Locking, HandInv
  <2> QED
    BY <1>5, <2>1, <2>2
<1>6. ASSUME NEW w \in Worker, PurgeVectors(w) \/ PurgeRows(w) \/ RemoveFile(w)
      PROVE  HandInv'
  BY <1>6 DEF PurgeVectors, PurgeRows, RemoveFile, Asserting, Locking, HandInv
<1>7. ASSUME NEW w \in Worker, Succeed(w) PROVE HandInv'
  BY <1>7 DEF Succeed, EndJob, HandInv
<1>8. ASSUME NEW w \in Worker, Fail(w) PROVE HandInv'
  BY <1>8 DEF Fail, FailedDocument, EndJob, HandInv
<1>9. ASSUME NEW w \in Worker, Crash(w) \/ HeartbeatFails(w) PROVE HandInv'
  <2>1. CASE Crash(w)
    BY <2>1 DEF Crash, EndJob, HandInv
  <2>2. CASE HeartbeatFails(w)
    BY <2>2 DEF HeartbeatFails, HandInv
  <2> QED
    BY <1>9, <2>1, <2>2
<1>10. ASSUME NEW j \in Job, RetryComesDue(j) \/ OrphanLeaseExpires(j) PROVE HandInv'
  BY <1>10 DEF RetryComesDue, OrphanLeaseExpires, InHand, HandInv
<1> QED
  BY CalmStep, <1>1, <1>2, <1>3, <1>4, <1>5, <1>6, <1>7, <1>8, <1>9, <1>10 DEF Work

(* A job in hand is the ingestion of its document, and nobody else's.      *)
LEMMA OneHand ==
  ASSUME TypeOK, HandInv, NEW w \in Worker, pc[w] # "idle"
  PROVE  /\ job[w].doc \in Doc
         /\ job[w] = ingestOf(job[w].doc)
         /\ \A v \in Worker : v # w /\ pc[v] # "idle" => job[v].doc # job[w].doc
<1>1. \A v \in Worker : pc[v] # "idle"
        => /\ job[v].doc \in Doc
           /\ job[v] = ingestOf(job[v].doc)
           /\ claimedBy[job[v]] = v
  BY DEF TypeOK, HandInv, Job, ingestOf
<1> QED
  BY <1>1

LEMMA IngestOf ==
  \A d \in Doc : ingestOf(d) \in Job /\ ingestOf(d).doc = d
BY DEF ingestOf, Job, Kind

LEMMA ServeStep ==
  ASSUME Calm, TypeOK, HandInv, ServeInv, Next
  PROVE  ServeInv'
<1> USE IngestOf DEF TypeOK, docs, jobs, workers
<1>a. ASSUME NEW w \in Worker, pc[w] # "idle", NEW e \in Doc, e = job[w].doc,
             \A d \in Doc : d # e
               => /\ docStatus'[d] = docStatus[d] /\ points'[d] = points[d]
                  /\ (d \in active' <=> d \in active) /\ (d \in chunks' <=> d \in chunks)
                  /\ status'[ingestOf(d)] = status[ingestOf(d)],
             \A v \in Worker : v # w
               => pc'[v] = pc[v] /\ job'[v] = job[v] /\ left'[v] = left[v],
             PlaceInv(w)', DocInv(e)'
      PROVE  ServeInv'
  <2>1. ASSUME NEW v \in Worker, v # w PROVE PlaceInv(v)'
    <3>1. CASE pc[v] = "idle"
      BY <1>a, <2>1, <3>1 DEF PlaceInv
    <3>2. CASE pc[v] # "idle"
      <4>1. job[v].doc \in Doc /\ job[v].doc # e
        BY <1>a, <2>1, <3>2, OneHand
      <4> QED
        BY <1>a, <2>1, <4>1 DEF PlaceInv, ServeInv
    <3> QED
      BY <3>1, <3>2
  <2>2. ASSUME NEW d \in Doc, d # e PROVE DocInv(d)'
    BY <1>a, <2>2 DEF DocInv, Served, ServeInv
  <2> QED
    BY <1>a, <2>1, <2>2 DEF ServeInv
<1>1. ASSUME NEW d \in Doc, Create(d) PROVE ServeInv'
  <2>1. docStatus[d] = "none" /\ status[ingestOf(d)] = "none"
    <3>1. docStatus[d] = "none"
      BY <1>1 DEF Create
    <3>2. ingestOf(d) \in Job /\ ingestOf(d).doc = d
      OBVIOUS
    <3> QED
      BY <3>1, <3>2 DEF HandInv
  <2>2. ASSUME NEW w \in Worker PROVE PlaceInv(w)'
    <3>1. pc[w] # "idle" => job[w].doc # d
      BY <2>1, OneHand DEF HandInv
    <3> QED
      BY <1>1, <3>1, OneHand DEF Create, PlaceInv, ServeInv
  <2>3. ASSUME NEW e \in Doc PROVE DocInv(e)'
    BY <1>1, <2>1 DEF Create, InsertJob, DocInv, Served, ServeInv, ingestOf
  <2> QED
    BY <2>2, <2>3 DEF ServeInv
<1>2. ASSUME NEW w \in Worker, Claim(w) PROVE ServeInv'
  <2>1. ASSUME NEW v \in Worker PROVE PlaceInv(v)'
    BY <1>2 DEF Claim, PlaceInv, ServeInv
  <2>2. ASSUME NEW d \in Doc PROVE DocInv(d)'
    BY <1>2 DEF Claim, FirstClaimable, Claimable, DocInv, Served, ServeInv
  <2> QED
    BY <2>1, <2>2 DEF ServeInv
<1>3. ASSUME NEW w \in Worker, AssertLease(w) PROVE ServeInv'
  BY <1>3 DEF AssertLease, ServeInv, PlaceInv, DocInv, Served
<1>4. ASSUME NEW w \in Worker, LeaseLost(w) \/ Crash(w) PROVE ServeInv'
  <2>1. EndJob(w) /\ UNCHANGED <<docs, jobs>>
    BY <1>4 DEF LeaseLost, Crash
  <2> QED
    BY <2>1 DEF EndJob, ServeInv, PlaceInv, DocInv, Served
<1>5. ASSUME NEW w \in Worker, Throws(w) PROVE ServeInv'
  BY <1>5 DEF Throws, ServeInv, PlaceInv, DocInv, Served
<1>6. ASSUME NEW w \in Worker, ReadSource(w) PROVE ServeInv'
  BY <1>6 DEF ReadSource, Asserting, ServeInv, PlaceInv, DocInv, Served
<1>7. ASSUME NEW w \in Worker, StoreChunks(w) PROVE ServeInv'
  <2> DEFINE d == job[w].doc
  <2>1. /\ pc[w] = "chunks" /\ status[job[w]] = "running"
        /\ job[w] = ingestOf(d) /\ d \in Doc
    BY <1>7, OneHand DEF StoreChunks, Locking, Owns
  <2>2. PlaceInv(w)' /\ DocInv(d)'
    BY <1>7, <2>1 DEF StoreChunks, Locking, PlaceInv, DocInv, Served, ServeInv
  <2> QED
    BY <1>7, <1>a, <2>1, <2>2 DEF StoreChunks, Locking
<1>8. ASSUME NEW w \in Worker, ClearVectors(w) PROVE ServeInv'
  <2> DEFINE d == job[w].doc
  <2>1. /\ pc[w] = "clear" /\ status[job[w]] = "running"
        /\ job[w] = ingestOf(d) /\ d \in Doc
    BY <1>8, OneHand DEF ClearVectors, Asserting, HandInv
  <2>2. PlaceInv(w)' /\ DocInv(d)'
    BY <1>8, <2>1 DEF ClearVectors, Asserting, PlaceInv, DocInv, Served, ServeInv
  <2> QED
    BY <1>8, <1>a, <2>1, <2>2 DEF ClearVectors, Asserting
<1>9. ASSUME NEW w \in Worker, WriteVectors(w) PROVE ServeInv'
  <2> DEFINE d == job[w].doc
  <2>1. /\ pc[w] = "write" /\ status[job[w]] = "running"
        /\ job[w] = ingestOf(d) /\ d \in Doc
    BY <1>9, OneHand DEF WriteVectors, Asserting, HandInv
  <2>2. PICK batch \in SUBSET left[w] :
          /\ Asserting(w, "write", IF batch = left[w] THEN "index" ELSE "write")
          /\ points' = [points EXCEPT ![job[w].doc] = @ \union batch]
          /\ left' = [left EXCEPT ![w] = @ \ batch]
          /\ UNCHANGED <<docStatus, active, file, chunks>>
    BY <1>9 DEF WriteVectors
  <2>3. points[job[w].doc] = Chunk \ left[w] /\ left[w] \subseteq Chunk
    BY <2>1 DEF PlaceInv, ServeInv
  <2>4. points'[job[w].doc] = Chunk \ left'[w]
    BY <2>1, <2>2, <2>3
  <2>5. PlaceInv(w)' /\ DocInv(d)'
    BY <2>1, <2>2, <2>3, <2>4 DEF Asserting, PlaceInv, DocInv, Served, ServeInv
  <2> QED
    BY <1>a, <2>1, <2>2, <2>5 DEF Asserting
<1>10. ASSUME NEW w \in Worker, MarkIndexed(w) PROVE ServeInv'
  <2> DEFINE d == job[w].doc
  <2>1. /\ pc[w] = "index" /\ status[job[w]] = "running"
        /\ job[w] = ingestOf(d) /\ d \in Doc
    BY <1>10, OneHand DEF MarkIndexed, Locking, Owns
  <2>2. PlaceInv(w)' /\ DocInv(d)'
    BY <1>10, <2>1 DEF MarkIndexed, Locking, PlaceInv, DocInv, Served, ServeInv
  <2> QED
    BY <1>10, <1>a, <2>1, <2>2 DEF MarkIndexed, Locking
<1>11. ASSUME NEW w \in Worker, PurgeVectors(w) \/ PurgeRows(w) \/ RemoveFile(w)
       PROVE  ServeInv'
  BY <1>11 DEF PurgeVectors, PurgeRows, RemoveFile, Asserting, Locking, HandInv
<1>12. ASSUME NEW w \in Worker, Succeed(w) PROVE ServeInv'
  <2>1. PICK d \in Doc : d = job[w].doc
    BY <1>12, OneHand DEF Succeed
  <2>2. pc[w] = "succeed" /\ status[job[w]] = "running" /\ job[w] = ingestOf(d)
    BY <1>12, <2>1, OneHand DEF Succeed, Owns
  <2>3. PlaceInv(w)'
    BY <1>12 DEF Succeed, EndJob, PlaceInv
  <2>4. DocInv(d)'
    BY <1>12, <2>1, <2>2 DEF Succeed, DocInv, PlaceInv, Served, ServeInv
  <2>5. \A e \in Doc : e # d => ingestOf(e) # job[w]
    BY <2>1, <2>2
  <2> QED
    BY <1>12, <1>a, <2>1, <2>2, <2>3, <2>4, <2>5 DEF Succeed, EndJob
<1>13. ASSUME NEW w \in Worker, Fail(w) PROVE ServeInv'
  <2>1. PICK d \in Doc : d = job[w].doc
    BY <1>13, OneHand DEF Fail
  <2>2. pc[w] = "fail" /\ status[job[w]] = "running" /\ job[w] = ingestOf(d)
    BY <1>13, <2>1, OneHand DEF Fail, Owns
  <2>3. PlaceInv(w)'
    BY <1>13 DEF Fail, EndJob, PlaceInv
  <2>4. DocInv(d)'
    BY <1>13, <2>1, <2>2 DEF Fail, FailedDocument, DocInv, PlaceInv, Served, ServeInv
  <2>5. \A e \in Doc : e # d => ingestOf(e) # job[w]
    BY <2>1, <2>2
  <2> QED
    BY <1>13, <1>a, <2>1, <2>2, <2>3, <2>4, <2>5 DEF Fail, EndJob
<1>14. ASSUME NEW w \in Worker, HeartbeatFails(w) PROVE ServeInv'
  BY <1>14 DEF HeartbeatFails, ServeInv, PlaceInv, DocInv, Served
<1>15. ASSUME NEW j \in Job, RetryComesDue(j) \/ OrphanLeaseExpires(j) PROVE ServeInv'
  BY <1>15 DEF RetryComesDue, OrphanLeaseExpires, ServeInv, PlaceInv, DocInv, Served
<1> QED
  BY CalmStep, <1>1, <1>2, <1>3, <1>4, <1>5, <1>6, <1>7, <1>8, <1>9, <1>10, <1>11,
     <1>12, <1>13, <1>14, <1>15 DEF Work

(* Once no job of a document is under way, it is indexed only if all its   *)
(* chunks are stored and all their vectors are there, however its workers  *)
(* crash, fail, lose their heartbeat or retry (rag.service.ts:211-281).    *)
THEOREM IndexedServed ==
  ASSUME Calm
  PROVE  Spec => []IndexedIsServed
<1>1. Init => RagInv
  <2>1. Init => HandInv /\ ServeInv
    BY IngestOf DEF Init, HandInv, ServeInv, PlaceInv, DocInv, Served
  <2> QED
    BY <2>1, InitTypes DEF RagInv
<1>2. RagInv /\ [Next]_vars => RagInv'
  <2>1. CASE Next
    BY <2>1, StepKeepsTypes, HandStep, ServeStep DEF RagInv
  <2>2. CASE UNCHANGED vars
    BY <2>2 DEF vars, RagInv, TypeOK, HandInv, ServeInv, PlaceInv, DocInv, Served
  <2> QED
    BY <2>1, <2>2
<1>3. RagInv => IndexedIsServed
  BY IngestOf DEF RagInv, ServeInv, DocInv, Served, IndexedIsServed, Live
<1> QED
  BY <1>1, <1>2, <1>3, PTL DEF Spec
=============================================================================
