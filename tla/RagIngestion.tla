---------------------------- MODULE RagIngestion ----------------------------
(***************************************************************************)
(* Knowledge documents, their chunks and vectors, and the durable jobs     *)
(* (rag_ingestion_jobs) that index, rebuild and purge them.                *)
(*                                                                         *)
(* A worker (RagIngestionWorker: one per process, one job at a time) owns  *)
(* a job through its claim token.  Each claim draws a new token; as a      *)
(* worker has one job in hand, its name stands for the token of its latest *)
(* claim.  A transaction re-checks the claim under a row lock (lockLease); *)
(* a call to the vector store can only be preceded by a check              *)
(* (assertLease), so the claim may be gone when the call lands.  A write   *)
(* to the vector store is therefore two steps here: AssertLease, which     *)
(* puts the worker in "held", and the write.                               *)
(*                                                                         *)
(* A document has one version and its source never changes, so its chunks  *)
(* are there or not; its vectors are written in batches.  The clock is     *)
(* abstracted to leases that ran out and retries that are not due yet.     *)
(*                                                                         *)
(* The rebuild command is one READ COMMITTED transaction: a statement that *)
(* lists the documents and queues their jobs, and statements that write to *)
(* the listed documents by id.  What the other actors commit in between is *)
(* overwritten, so the command is two steps here, RebuildInsert and        *)
(* RebuildCommit.                                                          *)
(***************************************************************************)
EXTENDS Integers, FiniteSets, Sequences

CONSTANTS
  Doc,          \* documents
  Deletable,    \* those a delete job may be queued for
  Gen,          \* generations named on the rebuild command line
  Chunk,        \* the chunks of a document
  PgVector,     \* TRUE: the pgvector adapter; FALSE: Qdrant
  Worker,       \* worker processes
  NoWorker,     \* the NULL of claimed_by
  NoJob,        \* a worker with nothing in hand
  MaxAttempts,  \* rag_ingestion_jobs.max_attempts
  MaxRebuilds,  \* bound on the runs of the rebuild command
  MaxFaults,    \* bound on crashes, storage hiccups and failed heartbeats
  MaxOverruns,  \* bound on leases that run out under a live worker
  MaxMishaps    \* bound on all three together

Kind == {"ingest", "delete"} \union Gen
Job  == [doc : Doc, kind : Kind]

ASSUME RagAssumption ==
  /\ IsFiniteSet(Doc) /\ Deletable \subseteq Doc
  /\ Gen \intersect {"ingest", "delete"} = {}
  /\ PgVector \in BOOLEAN
  /\ NoWorker \notin Worker
  /\ NoJob \notin Job
  /\ MaxAttempts \in Nat \ {0}
  /\ MaxRebuilds \in Nat /\ MaxFaults \in Nat /\ MaxOverruns \in Nat
  /\ MaxMishaps \in Nat

VARIABLES
  docStatus,  \* rag_documents.status; "none" before the row exists
  active,     \* documents with an active_version_id
  file,       \* documents whose source file is stored
  chunks,     \* documents whose rag_chunks rows exist
  points,     \* vectors of each document in the vector store
  created,    \* the jobs, by created_at
  status,     \* status of each job
  attempts,   \* attempts of each job
  claimedBy,  \* claimed_by of each job
  leaseOut,   \* jobs whose lease_until has passed
  waiting,    \* jobs whose next_retry_at is still to come
  pc,         \* where each worker is
  job,        \* the job each worker has in hand
  held,       \* workers whose assertLease succeeded since their last write
  lost,       \* workers whose heartbeat failed
  left,       \* the vectors each worker has still to write
  listed,     \* documents listed by the command of a generation under way
  rebuilds, faults, overruns

docs     == <<docStatus, active, file, chunks, points>>
jobs     == <<created, status, attempts, claimedBy, leaseOut, waiting>>
workers  == <<pc, job, held, lost, left>>
counters == <<listed, rebuilds, faults, overruns>>
vars == <<docStatus, active, file, chunks, points, created, status, attempts,
          claimedBy, leaseOut, waiting, pc, job, held, lost, left, listed,
          rebuilds, faults, overruns>>

(* Where assertLease is called before anything is done, and where a        *)
(* transaction checks the claim itself.                                    *)
Asserted == {"read", "clear", "write", "purge"}
Locked   == {"chunks", "index", "purgeRows"}

TypeOK ==
  /\ docStatus \in [Doc -> {"none", "pending", "indexed", "failed", "deleted"}]
  /\ active \subseteq Doc /\ file \subseteq Doc /\ chunks \subseteq Doc
  /\ points \in [Doc -> SUBSET Chunk]
  /\ created \in Seq(Job)
  /\ status \in [Job -> {"none", "queued", "running", "failed", "succeeded",
                         "dead_lettered"}]
  /\ attempts \in [Job -> 0..MaxAttempts]
  /\ claimedBy \in [Job -> Worker \union {NoWorker}]
  /\ leaseOut \subseteq Job /\ waiting \subseteq Job
  /\ pc \in [Worker -> Asserted \union Locked
                         \union {"idle", "remove", "succeed", "fail"}]
  /\ job \in [Worker -> Job \union {NoJob}]
  /\ \A w \in Worker : pc[w] # "idle" => job[w] \in Job
  /\ held \subseteq Worker /\ lost \subseteq Worker
  /\ left \in [Worker -> SUBSET Chunk]
  /\ listed \in [Gen -> SUBSET Doc]
  /\ rebuilds \in 0..MaxRebuilds /\ faults \in 0..MaxFaults
  /\ overruns \in 0..MaxOverruns

Init ==
  /\ docStatus = [d \in Doc |-> "none"]
  /\ active = {} /\ file = {} /\ chunks = {}
  /\ points = [d \in Doc |-> {}]
  /\ created = <<>>
  /\ status = [j \in Job |-> "none"]
  /\ attempts = [j \in Job |-> 0]
  /\ claimedBy = [j \in Job |-> NoWorker]
  /\ leaseOut = {} /\ waiting = {}
  /\ pc = [w \in Worker |-> "idle"]
  /\ job = [w \in Worker |-> NoJob]
  /\ held = {} /\ lost = {}
  /\ left = [w \in Worker |-> {}]
  /\ listed = [g \in Gen |-> {}]
  /\ rebuilds = 0 /\ faults = 0 /\ overruns = 0

(***************************************************************************)
(* Queueing.                                                               *)
(***************************************************************************)
InsertJob(j) ==
  /\ created' = Append(created, j)
  /\ status' = [status EXCEPT ![j] = "queued"]
  /\ UNCHANGED <<attempts, claimedBy, leaseOut, waiting>>

(* RagService.create: the upload, then one transaction for the rows.       *)
Create(d) ==
  /\ docStatus[d] = "none"
  /\ docStatus' = [docStatus EXCEPT ![d] = "pending"]
  /\ file' = file \union {d}
  /\ InsertJob([doc |-> d, kind |-> "ingest"])
  /\ UNCHANGED <<active, chunks, points, workers, counters>>

(* A delete job.  Nothing in the repository queues one; the row policies   *)
(* let a client of the database do so.                                     *)
QueueDelete(d) ==
  LET j == [doc |-> d, kind |-> "delete"] IN
  /\ d \in Deletable
  /\ docStatus[d] # "none"
  /\ status[j] = "none"
  /\ InsertJob(j)
  /\ UNCHANGED <<docs, workers, counters>>

MayHappen == faults + overruns + rebuilds < MaxMishaps

(* The rebuild command's first statement: a job for every active document, *)
(* or the same job again (ON CONFLICT DO UPDATE) when the generation is    *)
(* repeated.  Nobody sees the rows before the commit, and those that were  *)
(* there stay locked until then.  Commands of one generation wait for each *)
(* other; one that is rolled back has changed nothing.                     *)
RowsOf(g, D) == {j \in Job : j.kind = g /\ j.doc \in D}
RowLocked(j) == j.kind \in Gen /\ j.doc \in listed[j.kind]

RebuildInsert(g) ==
  LET D == {d \in active : docStatus[d] # "deleted"}
      fresh == {j \in RowsOf(g, D) : status[j] = "none"}
  IN
  /\ rebuilds < MaxRebuilds /\ MayHappen
  /\ rebuilds' = rebuilds + 1
  /\ listed[g] = {} /\ D # {}
  /\ listed' = [listed EXCEPT ![g] = D]
  /\ \E s \in [1..Cardinality(fresh) -> fresh] :
       /\ {s[i] : i \in 1..Cardinality(fresh)} = fresh
       /\ created' = created \o s
  /\ UNCHANGED <<docs, status, attempts, claimedBy, leaseOut, waiting, workers,
                 faults, overruns>>

(* Its last statement, and the commit: the listed documents become pending *)
(* by id, whatever has happened to them since they were listed.            *)
RebuildCommit(g) ==
  LET J == RowsOf(g, listed[g]) IN
  /\ listed[g] # {}
  /\ status' = [j \in Job |-> IF j \in J THEN "queued" ELSE status[j]]
  /\ attempts' = [j \in Job |-> IF j \in J THEN 0 ELSE attempts[j]]
  /\ claimedBy' = [j \in Job |-> IF j \in J THEN NoWorker ELSE claimedBy[j]]
  /\ leaseOut' = leaseOut \ J
  /\ waiting' = waiting \ J
  /\ docStatus' = [d \in Doc |-> IF d \in listed[g] THEN "pending"
                                                    ELSE docStatus[d]]
  /\ listed' = [listed EXCEPT ![g] = {}]
  /\ UNCHANGED <<active, file, chunks, points, created, workers, rebuilds,
                 faults, overruns>>

(***************************************************************************)
(* The claim.                                                              *)
(***************************************************************************)
(* Mutant: a running job is claimed whether its lease ran out or not.      *)
ClaimableAnyLease(j) ==
  /\ status[j] \in {"queued", "failed", "running"}
  /\ attempts[j] < MaxAttempts
  /\ j \notin waiting

(* Mutant: no bound on the attempts.                                       *)
ClaimableAnyAttempt(j) ==
  /\ status[j] \in {"queued", "failed", "running"}
  /\ j \notin waiting
  /\ status[j] = "running" => j \in leaseOut

(* Mutant: a job whose worker died is never claimed again.                 *)
ClaimableNotRunning(j) ==
  /\ status[j] \in {"queued", "failed"}
  /\ attempts[j] < MaxAttempts
  /\ j \notin waiting

Claimable(j) ==
  /\ status[j] \in {"queued", "failed", "running"}
  /\ attempts[j] < MaxAttempts
  /\ j \notin waiting
  /\ status[j] = "running" => j \in leaseOut

(* ORDER BY created_at FOR UPDATE SKIP LOCKED LIMIT 1                      *)
FirstClaimable(j) ==
  \E i \in 1..Len(created) :
    /\ created[i] = j
    /\ Claimable(j) /\ ~ RowLocked(j)
    /\ \A k \in 1..(i - 1) : Claimable(created[k]) => RowLocked(created[k])

Claim(w) ==
  /\ pc[w] = "idle"
  /\ \E j \in Job :
       /\ FirstClaimable(j)
       /\ status' = [status EXCEPT ![j] = "running"]
       /\ attempts' = [attempts EXCEPT ![j] = @ + 1]
       /\ claimedBy' = [claimedBy EXCEPT ![j] = w]
       /\ leaseOut' = leaseOut \ {j}
       /\ job' = [job EXCEPT ![w] = j]
       /\ pc' = [pc EXCEPT ![w] = IF j.kind = "delete" THEN "purge" ELSE "read"]
  /\ UNCHANGED <<docs, created, waiting, held, lost, left, counters>>

(***************************************************************************)
(* The lease.                                                              *)
(***************************************************************************)
(* Mutant: the UPDATEs name the job by its id alone.                       *)
OwnsById(w) == TRUE

Owns(w) == status[job[w]] = "running" /\ claimedBy[job[w]] = w

(* The worker is done with the job, or drops it (RagLeaseLostError).       *)
EndJob(w) ==
  /\ pc' = [pc EXCEPT ![w] = "idle"]
  /\ job' = [job EXCEPT ![w] = NoJob]
  /\ held' = held \ {w}
  /\ lost' = lost \ {w}
  /\ left' = [left EXCEPT ![w] = {}]

(* assertLease renews the lease as it checks the claim.  An UPDATE of a    *)
(* row that a rebuild has locked waits for its commit.                     *)
AssertLease(w) ==
  /\ pc[w] \in Asserted
  /\ w \notin held
  /\ Owns(w) /\ w \notin lost /\ ~ RowLocked(job[w])
  /\ held' = held \union {w}
  /\ leaseOut' = leaseOut \ {job[w]}
  /\ UNCHANGED <<docs, created, status, attempts, claimedBy, waiting, pc, job,
                 lost, left, counters>>

LeaseLost(w) ==
  /\ \/ pc[w] \in Asserted /\ w \notin held /\ ~ (Owns(w) /\ w \notin lost)
     \/ pc[w] \in Locked /\ ~ (Owns(w) /\ w \notin lost)
     \/ pc[w] \in {"succeed", "fail"} /\ ~ Owns(w)
  /\ EndJob(w)
  /\ UNCHANGED <<docs, jobs, counters>>

(* A step of ingest or purge that needed only assertLease ...              *)
Asserting(w, here, there) ==
  /\ pc[w] = here
  /\ w \in held
  /\ held' = held \ {w}
  /\ pc' = [pc EXCEPT ![w] = there]
  /\ UNCHANGED <<jobs, job, lost, counters>>

(* ... and one that is a transaction which locks the job's row.            *)
Locking(w, here, there) ==
  /\ pc[w] = here
  /\ Owns(w) /\ w \notin lost /\ ~ RowLocked(job[w])
  /\ pc' = [pc EXCEPT ![w] = there]
  /\ leaseOut' = leaseOut \ {job[w]}
  /\ UNCHANGED <<created, status, attempts, claimedBy, waiting, job, held, lost,
                 counters>>

(***************************************************************************)
(* ingest                                                                  *)
(***************************************************************************)
(* The source is read, chunked and embedded.                               *)
ReadSource(w) ==
  /\ job[w] # NoJob
  /\ job[w].doc \in file
  /\ Asserting(w, "read", "chunks")
  /\ UNCHANGED <<docs, left>>

StoreChunks(w) ==
  /\ Locking(w, "chunks", "clear")
  /\ chunks' = chunks \union {job[w].doc}
  /\ points' = IF PgVector THEN [points EXCEPT ![job[w].doc] = {}] ELSE points
  /\ UNCHANGED <<docStatus, active, file, left>>

(* vectors.deleteVersion                                                   *)
ClearVectors(w) ==
  /\ Asserting(w, "clear", "write")
  /\ points' = [points EXCEPT ![job[w].doc] = {}]
  /\ left' = [left EXCEPT ![w] = Chunk]
  /\ UNCHANGED <<docStatus, active, file, chunks>>

(* vectors.upsert: pgvector writes in batches, and its foreign key refuses *)
(* a vector without its chunk; Qdrant takes all vectors in one request.    *)
WriteVectors(w) ==
  \E batch \in SUBSET left[w] :
    /\ batch # {}
    /\ ~ PgVector => batch = left[w]
    /\ PgVector => Cardinality(batch) = 1 /\ job[w].doc \in chunks
    /\ Asserting(w, "write", IF batch = left[w] THEN "index" ELSE "write")
    /\ points' = [points EXCEPT ![job[w].doc] = @ \union batch]
    /\ left' = [left EXCEPT ![w] = @ \ batch]
    /\ UNCHANGED <<docStatus, active, file, chunks>>

MarkIndexed(w) ==
  /\ Locking(w, "index", "succeed")
  /\ docStatus' = [docStatus EXCEPT ![job[w].doc] = "indexed"]
  /\ active' = active \union {job[w].doc}
  /\ UNCHANGED <<file, chunks, points, left>>

(***************************************************************************)
(* purge                                                                   *)
(***************************************************************************)
(* vectors.deleteDocument                                                  *)
PurgeVectors(w) ==
  /\ Asserting(w, "purge", "purgeRows")
  /\ points' = [points EXCEPT ![job[w].doc] = {}]
  /\ UNCHANGED <<docStatus, active, file, chunks, left>>

PurgeRows(w) ==
  /\ Locking(w, "purgeRows", "remove")
  /\ chunks' = chunks \ {job[w].doc}
  /\ points' = IF PgVector THEN [points EXCEPT ![job[w].doc] = {}] ELSE points
  /\ docStatus' = [docStatus EXCEPT ![job[w].doc] = "deleted"]
  /\ active' = active \ {job[w].doc}
  /\ UNCHANGED <<file, left>>

Fault ==
  /\ faults < MaxFaults /\ MayHappen
  /\ faults' = faults + 1

(* storage.remove; an error of it is swallowed.                            *)
RemoveFile(w) ==
  /\ pc[w] = "remove"
  /\ pc' = [pc EXCEPT ![w] = "succeed"]
  /\ \/ file' = file \ {job[w].doc} /\ UNCHANGED faults
     \/ Fault /\ UNCHANGED file
  /\ UNCHANGED <<docStatus, active, chunks, points, jobs, job, held, lost, left,
                 listed, rebuilds, overruns>>

(***************************************************************************)
(* The outcome.                                                            *)
(***************************************************************************)
Succeed(w) ==
  /\ pc[w] = "succeed"
  /\ Owns(w) /\ ~ RowLocked(job[w])
  /\ status' = [status EXCEPT ![job[w]] = "succeeded"]
  /\ claimedBy' = [claimedBy EXCEPT ![job[w]] = NoWorker]
  /\ leaseOut' = leaseOut \ {job[w]}
  /\ EndJob(w)
  /\ UNCHANGED <<docs, created, attempts, waiting, counters>>

(* Storage, embeddings, the vector store or the database refuse a step.    *)
Throws(w) ==
  /\ \/ pc[w] \in Asserted /\ w \in held
     \/ pc[w] \in Locked \union {"succeed"}
  /\ pc' = [pc EXCEPT ![w] = "fail"]
  /\ held' = held \ {w}
  /\ left' = [left EXCEPT ![w] = {}]
  /\ UNCHANGED <<docs, jobs, job, lost, counters>>

(* Mutant: one attempt too many before the dead-letter state.              *)
ExhaustedLate(j) == attempts[j] > MaxAttempts

Exhausted(j) == attempts[j] >= MaxAttempts

(* Mutants: a deleted document is marked failed as well, and no document   *)
(* is.                                                                     *)
FailedDocumentAny(d) == "failed"
FailedDocument(d) == IF docStatus[d] = "deleted" THEN "deleted" ELSE "failed"

Fail(w) ==
  LET j == job[w] IN
  /\ pc[w] = "fail"
  /\ Owns(w) /\ ~ RowLocked(j)
  /\ status' = [status EXCEPT
       ![j] = IF Exhausted(j) THEN "dead_lettered" ELSE "failed"]
  /\ waiting' = IF Exhausted(j) THEN waiting ELSE waiting \union {j}
  /\ claimedBy' = [claimedBy EXCEPT ![j] = NoWorker]
  /\ leaseOut' = leaseOut \ {j}
  /\ docStatus' = [docStatus EXCEPT ![j.doc] = FailedDocument(j.doc)]
  /\ EndJob(w)
  /\ UNCHANGED <<active, file, chunks, points, created, attempts, counters>>

(***************************************************************************)
(* Time and faults.                                                        *)
(***************************************************************************)
RetryComesDue(j) ==
  /\ j \in waiting
  /\ waiting' = waiting \ {j}
  /\ UNCHANGED <<docs, created, status, attempts, claimedBy, leaseOut, workers,
                 counters>>

InHand(j) == \E w \in Worker : job[w] = j /\ claimedBy[j] = w

OrphanLeaseExpires(j) ==
  /\ status[j] = "running"
  /\ j \notin leaseOut
  /\ ~ InHand(j)
  /\ leaseOut' = leaseOut \union {j}
  /\ UNCHANGED <<docs, created, status, attempts, claimedBy, waiting, workers,
                 counters>>

(* A worker stalls for longer than its heartbeats can bridge.              *)
Overrun(j) ==
  /\ overruns < MaxOverruns /\ MayHappen
  /\ overruns' = overruns + 1
  /\ status[j] = "running"
  /\ j \notin leaseOut
  /\ InHand(j)
  /\ leaseOut' = leaseOut \union {j}
  /\ UNCHANGED <<docs, created, status, attempts, claimedBy, waiting, workers,
                 listed, rebuilds, faults>>

(* The process dies, or the transaction of fail is refused.                *)
Crash(w) ==
  /\ pc[w] # "idle"
  /\ Fault
  /\ EndJob(w)
  /\ UNCHANGED <<docs, jobs, listed, rebuilds, overruns>>

(* The heartbeat's UPDATE is refused: the worker gives the job up at its   *)
(* next check although the row is still its own.                           *)
HeartbeatFails(w) ==
  /\ pc[w] # "idle"
  /\ w \notin lost
  /\ Fault
  /\ lost' = lost \union {w}
  /\ UNCHANGED <<docs, jobs, pc, job, held, left, listed, rebuilds, overruns>>

Work(w) ==
  \/ Claim(w)
  \/ AssertLease(w)
  \/ LeaseLost(w)
  \/ ReadSource(w)
  \/ StoreChunks(w)
  \/ ClearVectors(w)
  \/ WriteVectors(w)
  \/ MarkIndexed(w)
  \/ PurgeVectors(w)
  \/ PurgeRows(w)
  \/ RemoveFile(w)
  \/ Succeed(w)
  \/ Throws(w)
  \/ Fail(w)

Next ==
  \/ \E d \in Doc : Create(d) \/ QueueDelete(d)
  \/ \E g \in Gen : RebuildInsert(g) \/ RebuildCommit(g)
  \/ \E w \in Worker : Work(w) \/ Crash(w) \/ HeartbeatFails(w)
  \/ \E j \in Job : RetryComesDue(j) \/ OrphanLeaseExpires(j) \/ Overrun(j)

Spec == Init /\ [][Next]_vars

(* A worker polls every two seconds and finishes what it has in hand; time *)
(* passes for leases nobody renews and for retries; a rebuild that got     *)
(* through its first statement gets through the others.                    *)
Fairness ==
  /\ \A w \in Worker : WF_vars(Work(w))
  /\ \A j \in Job : WF_vars(RetryComesDue(j)) /\ WF_vars(OrphanLeaseExpires(j))
  /\ \A g \in Gen : WF_vars(RebuildCommit(g))

FairSpec == Spec /\ Fairness
-----------------------------------------------------------------------------
Live(j) == status[j] \in {"queued", "running", "failed"}

(* Once no job of a document is under way, the document is indexed only if *)
(* all its chunks are stored and all their vectors are searchable          *)
(* (rag.service.ts:211-281): no interrupted, repeated or late ingestion    *)
(* leaves a document that claims to be searchable and is not.              *)
IndexedIsServed ==
  \A d \in Doc :
    docStatus[d] = "indexed" /\ (\A j \in Job : j.doc = d => ~ Live(j))
      => d \in active /\ d \in chunks /\ points[d] = Chunk

(* A job is retried until its attempts are used up and then dead-lettered, *)
(* also when a late worker reports on an attempt that is no longer its own *)
(* and when the job is queued again (rag-ingestion.worker.ts:128-142).     *)
DeadLetterIffExhausted ==
  \A j \in Job :
    /\ status[j] = "failed" => attempts[j] < MaxAttempts
    /\ status[j] = "dead_lettered" => attempts[j] >= MaxAttempts

(* No worker takes back a success: only the rebuild command reopens a job. *)
SuccessIsFinal ==
  [][\A j \in Job :
       status[j] = "succeeded" => status'[j] \in {"succeeded", "queued"}]_vars

(* The workers that have read the source of d and not yet written of it.   *)
Ingesting(d) ==
  {w \in Worker : pc[w] \in {"chunks", "clear", "write", "index"}
                    /\ job[w].doc = d}

(* Deleted, with its source file gone, no worker that has read it and no   *)
(* rebuild command that listed it while it was active.                     *)
Purged(d) ==
  /\ docStatus[d] = "deleted"
  /\ d \notin file
  /\ Ingesting(d) = {}
  /\ \A g \in Gen : d \notin listed[g]

(* A document that is purged in that sense stays so, and no passage or     *)
(* vector of it is stored again, whatever jobs of it are still queued,     *)
(* fail late, are repeated or are rebuilt (rag-ingestion.worker.ts:147-156,*)
(* rag.service.ts:299-350).  The two exceptions are in Purged: a worker    *)
(* that had read the source before can index what was purged, and a        *)
(* rebuild that had listed the document before overwrites its "deleted"    *)
(* with "pending" (rebuild-vectors.ts:49-53).                              *)
PurgedIsFinal ==
  [][\A d \in Doc :
       Purged(d) => /\ Purged(d)'
                    /\ d \in chunks' => d \in chunks
                    /\ points'[d] \subseteq points[d]]_vars

(* The jobs nobody can claim again: the worker of the last attempt is gone.*)
Stranded(j) == status[j] = "running" /\ attempts[j] >= MaxAttempts /\ ~ InHand(j)

(* Every queued job ends, or is stranded in its last attempt.              *)
JobEndsOrStrands ==
  \A j \in Job :
    Live(j) ~> status[j] \in {"succeeded", "dead_lettered"} \/ Stranded(j)

(* README.md:65 says "Keep the worker running until the RAG job queue      *)
(* drains", and so that it does drain.                                     *)
QueueDrains == \A j \in Job : Live(j) ~> status[j] \in {"succeeded", "dead_lettered"}
=============================================================================
