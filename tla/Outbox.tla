------------------------------- MODULE Outbox -------------------------------
(***************************************************************************)
(* The transactional outbox and its relay.                                 *)
(*                                                                         *)
(* A row of capere.domain_events is written with the state change that     *)
(* caused it (OutboxService.publishInTransaction).  Relay passes           *)
(* (OutboxRelayWorker.tick) claim batches of rows, deliver each event to   *)
(* the insights engine and mark the row consumed or failed.  A pass is one *)
(* call of tick(): the loop of a worker process, or a managed "outbox/tick"*)
(* request, any number of which run at once.                               *)
(*                                                                         *)
(* A claim is a random token.  Tokens are drawn from a finite set: one that*)
(* no row and no pass holds is as good as a new one.  Five minutes after   *)
(* claimed_at a claim is stale, whoever holds it; the clock is abstracted  *)
(* to the set of stale tokens (the rows of a batch share claimed_at).      *)
(***************************************************************************)
EXTENDS Integers, FiniteSets

CONSTANTS
  NEvents,      \* events are 1..NEvents, numbered by created_at
  Pass,         \* the passes that may run at the same time
  Token,        \* claim tokens
  NoClaim,      \* the NULL of claimed_at and claim_token
  BatchSize,    \* OutboxRelayWorker.BATCH_SIZE
  MaxAttempts,  \* domain_events.max_attempts
  MaxFaults     \* bound on crashes, database errors and overrun claims

ASSUME OutboxAssumption ==
  /\ NEvents \in Nat
  /\ NoClaim \notin Token
  /\ BatchSize \in Nat \ {0}
  /\ MaxAttempts \in Nat \ {0}
  /\ MaxFaults \in Nat

Event == 1..NEvents

VARIABLES
  inserted,   \* the rows that exist
  claim,      \* claim_token of each row
  attempts,   \* attempts of each row
  consumed,   \* the rows whose consumed_at is set
  stale,      \* the tokens whose claimed_at lies more than 5 minutes back
  pc,         \* where each pass is
  token,      \* the claim token of each pass
  batch,      \* the events each pass has still to process
  delivered,  \* the events some pass has delivered with no error
  faults      \* the faults that have happened

row  == <<inserted, claim, attempts, consumed>>
pass == <<pc, token, batch>>
vars == <<inserted, claim, attempts, consumed, stale, pc, token, batch,
          delivered, faults>>

Working == {"deliver", "mark", "fail"}

TypeOK ==
  /\ inserted \subseteq Event
  /\ claim \in [Event -> Token \union {NoClaim}]
  /\ attempts \in [Event -> 0..MaxAttempts]
  /\ consumed \subseteq Event
  /\ stale \subseteq Token
  /\ pc \in [Pass -> {"idle", "claiming"} \union Working]
  /\ token \in [Pass -> Token \union {NoClaim}]
  /\ batch \in [Pass -> SUBSET Event]
  /\ delivered \subseteq Event
  /\ faults \in 0..MaxFaults

Init ==
  /\ inserted = {}
  /\ claim = [e \in Event |-> NoClaim]
  /\ attempts = [e \in Event |-> 0]
  /\ consumed = {}
  /\ stale = {}
  /\ pc = [p \in Pass |-> "idle"]
  /\ token = [p \in Pass |-> NoClaim]
  /\ batch = [p \in Pass |-> {}]
  /\ delivered = {}
  /\ faults = 0

(***************************************************************************)
(* Publishing.  The insert commits with the publisher's transaction, so    *)
(* rows appear in any order whatever their created_at.                     *)
(***************************************************************************)
PublishInTransaction(e) ==
  /\ e \notin inserted
  /\ inserted' = inserted \union {e}
  /\ UNCHANGED <<claim, attempts, consumed, stale, pass, delivered, faults>>

(***************************************************************************)
(* claimBatch: SELECT ... FOR UPDATE SKIP LOCKED, then the UPDATE and the  *)
(* commit.  Between the two the transaction holds the row locks.           *)
(***************************************************************************)
(* Mutants: the WHERE clause with a term missing.                          *)
ClaimableNeverStale(e) ==
  e \in inserted /\ e \notin consumed /\ claim[e] = NoClaim
  /\ attempts[e] < MaxAttempts
ClaimableConsumed(e) ==
  e \in inserted /\ (claim[e] = NoClaim \/ claim[e] \in stale)
  /\ attempts[e] < MaxAttempts
ClaimableDead(e) ==
  e \in inserted /\ e \notin consumed /\ (claim[e] = NoClaim \/ claim[e] \in stale)

Claimable(e) ==
  /\ e \in inserted
  /\ e \notin consumed
  /\ claim[e] = NoClaim \/ claim[e] \in stale
  /\ attempts[e] < MaxAttempts

(* Mutant: SELECT without FOR UPDATE SKIP LOCKED.                          *)
RowLocksNone == {}

RowLocks == UNION {batch[p] : p \in {q \in Pass : pc[q] = "claiming"}}

Selectable == {e \in Event : Claimable(e) /\ e \notin RowLocks}

Earliest(n, S) == {e \in S : Cardinality({d \in S : d < e}) < n}

InUse(t) == (\E e \in Event : claim[e] = t) \/ (\E p \in Pass : token[p] = t)

ClaimSelect(p) ==
  /\ pc[p] = "idle"
  /\ Selectable # {}
  /\ batch' = [batch EXCEPT ![p] = Earliest(BatchSize, Selectable)]
  /\ \E t \in Token :
       /\ ~ InUse(t)
       /\ token' = [token EXCEPT ![p] = t]
       /\ stale' = stale \ {t}
  /\ pc' = [pc EXCEPT ![p] = "claiming"]
  /\ UNCHANGED <<row, delivered, faults>>

ClaimCommit(p) ==
  /\ pc[p] = "claiming"
  /\ claim' = [e \in Event |-> IF e \in batch[p] THEN token[p] ELSE claim[e]]
  /\ pc' = [pc EXCEPT ![p] = "deliver"]
  /\ UNCHANGED <<inserted, attempts, consumed, stale, token, batch, delivered,
                 faults>>

(***************************************************************************)
(* The loop of tick over the batch, in the order of created_at.            *)
(***************************************************************************)
Current(p) == CHOOSE e \in batch[p] : \A d \in batch[p] : e <= d

(* The pass ends: it returns, throws or its process dies.  Claims stay.    *)
EndPass(p) ==
  /\ pc' = [pc EXCEPT ![p] = "idle"]
  /\ token' = [token EXCEPT ![p] = NoClaim]
  /\ batch' = [batch EXCEPT ![p] = {}]

(* On to the next event of the batch, or out of the loop.                  *)
NextEvent(p) ==
  \/ /\ batch[p] = {Current(p)}
     /\ EndPass(p)
  \/ /\ batch[p] # {Current(p)}
     /\ pc' = [pc EXCEPT ![p] = "deliver"]
     /\ batch' = [batch EXCEPT ![p] = @ \ {Current(p)}]
     /\ UNCHANGED token

(* bus.emit and insights.runForEvent return.  Nothing looks at the claim.  *)
Deliver(p) ==
  /\ pc[p] = "deliver"
  /\ delivered' = delivered \union {Current(p)}
  /\ pc' = [pc EXCEPT ![p] = "mark"]
  /\ UNCHANGED <<row, stale, token, batch, faults>>

(* Mutant: tick swallows the error of runForEvent, as emit does.           *)
DeliverThrowsSwallowed(p) ==
  /\ pc[p] = "deliver"
  /\ pc' = [pc EXCEPT ![p] = "mark"]
  /\ UNCHANGED <<row, stale, token, batch, delivered, faults>>

(* runForEvent throws (bus.emit cannot).                                   *)
DeliverThrows(p) ==
  /\ pc[p] = "deliver"
  /\ pc' = [pc EXCEPT ![p] = "fail"]
  /\ UNCHANGED <<row, stale, token, batch, delivered, faults>>

(* Mutant: no claim_token in the WHERE clause.                             *)
OwnsClaimById(p, e) == TRUE

(* The WHERE clause of markConsumed and markFailed.                        *)
OwnsClaim(p, e) == claim[e] = token[p]

MarkConsumed(p) ==
  /\ pc[p] = "mark"
  /\ Current(p) \notin RowLocks
  /\ OwnsClaim(p, Current(p))
  /\ consumed' = consumed \union {Current(p)}
  /\ claim' = [claim EXCEPT ![Current(p)] = NoClaim]
  /\ NextEvent(p)
  /\ UNCHANGED <<inserted, attempts, stale, delivered, faults>>

(* No row updated: markConsumed throws and tick's catch calls markFailed.  *)
MarkConsumedThrows(p) ==
  /\ pc[p] = "mark"
  /\ Current(p) \notin RowLocks
  /\ ~ OwnsClaim(p, Current(p))
  /\ pc' = [pc EXCEPT ![p] = "fail"]
  /\ UNCHANGED <<row, stale, token, batch, delivered, faults>>

MarkFailed(p) ==
  /\ pc[p] = "fail"
  /\ Current(p) \notin RowLocks
  /\ OwnsClaim(p, Current(p))
  /\ attempts' = [attempts EXCEPT ![Current(p)] = @ + 1]
  /\ claim' = [claim EXCEPT ![Current(p)] = NoClaim]
  /\ NextEvent(p)
  /\ UNCHANGED <<inserted, consumed, stale, delivered, faults>>

(* markFailed throws out of tick: the rest of the batch stays claimed.     *)
MarkFailedThrows(p) ==
  /\ pc[p] = "fail"
  /\ Current(p) \notin RowLocks
  /\ ~ OwnsClaim(p, Current(p))
  /\ EndPass(p)
  /\ UNCHANGED <<row, stale, delivered, faults>>

(***************************************************************************)
(* Faults and time.                                                        *)
(***************************************************************************)
Fault ==
  /\ faults < MaxFaults
  /\ faults' = faults + 1

(* A process dies in a pass; an open transaction of it rolls back.         *)
Crash(p) ==
  /\ pc[p] # "idle"
  /\ Fault
  /\ EndPass(p)
  /\ UNCHANGED <<row, stale, delivered>>

(* The database refuses the UPDATE of markConsumed, or of markFailed.      *)
DatabaseError(p) ==
  /\ Fault
  /\ \/ /\ pc[p] = "mark"
        /\ pc' = [pc EXCEPT ![p] = "fail"]
        /\ UNCHANGED <<token, batch>>
     \/ /\ pc[p] = "fail"
        /\ EndPass(p)
  /\ UNCHANGED <<row, stale, delivered>>

Held(t) == \E p \in Pass : token[p] = t

(* Five minutes pass for the claim of a pass that is gone ...              *)
ExpireOrphan(t) ==
  /\ \E e \in Event : claim[e] = t
  /\ t \notin stale
  /\ ~ Held(t)
  /\ stale' = stale \union {t}
  /\ UNCHANGED <<row, pass, delivered, faults>>

(* ... or of one that is still at work on its batch.                       *)
Overrun(t) ==
  /\ \E e \in Event : claim[e] = t
  /\ t \notin stale
  /\ Held(t)
  /\ Fault
  /\ stale' = stale \union {t}
  /\ UNCHANGED <<row, pass, delivered>>

Tick(p) ==
  \/ ClaimSelect(p)
  \/ ClaimCommit(p)
  \/ Deliver(p)
  \/ DeliverThrows(p)
  \/ MarkConsumed(p)
  \/ MarkConsumedThrows(p)
  \/ MarkFailed(p)
  \/ MarkFailedThrows(p)

Next ==
  \/ \E e \in Event : PublishInTransaction(e)
  \/ \E p \in Pass : Tick(p) \/ Crash(p) \/ DatabaseError(p)
  \/ \E t \in Token : ExpireOrphan(t) \/ Overrun(t)

Spec == Init /\ [][Next]_vars

(* A pass that runs goes on, each worker polls again after a pass, and     *)
(* time passes for the claims that dead passes left.                       *)
Fairness ==
  /\ \A p \in Pass : WF_vars(Tick(p))
  /\ \A t \in Token : WF_vars(ExpireOrphan(t))

FairSpec == Spec /\ Fairness
-----------------------------------------------------------------------------
(* The dead-letter view (deadLettered, stats).                             *)
DeadLettered(e) == attempts[e] >= MaxAttempts /\ e \notin consumed

(* The mapping of the outbox to what it promises.                          *)
Status ==
  [e \in Event |->
     IF e \notin inserted THEN "unpublished"
     ELSE IF e \in consumed THEN "consumed"
     ELSE IF DeadLettered(e) THEN "dead" ELSE "pending"]

Promise == INSTANCE EventDelivery WITH status <- Status, failures <- attempts

Settled(e) == e \in consumed \/ DeadLettered(e)

(* Two passes have the same event in hand only when the claim of one has   *)
(* outlived its five minutes: what claimBatch's row locks and claim token  *)
(* do guarantee (outbox.service.ts:74-101).                                *)
OneLiveOwner ==
  \A p, q \in Pass :
    /\ p # q
    /\ pc[p] \in Working
    /\ pc[q] \in Working
    /\ batch[p] \intersect batch[q] # {}
    => token[p] \in stale \/ token[q] \in stale

(* An event is never marked consumed unless some delivery of it returned   *)
(* without an error, whichever pass made it (outbox-relay.worker.ts:71-79).*)
ConsumedWasDelivered == consumed \subseteq delivered

(* A pass that lost its claim changes nothing: once a row is consumed or   *)
(* dead-lettered, no late markConsumed, markFailed or claim touches it.    *)
SettledIsFinal ==
  [][\A e \in Event :
       Settled(e) => /\ e \in consumed' <=> e \in consumed
                     /\ attempts'[e] = attempts[e]
                     /\ claim'[e] = NoClaim]_vars

(* The comment of claimBatch (outbox.service.ts:77-80): "each relay locks  *)
(* a disjoint set of rows and no event is delivered twice concurrently".   *)
NoConcurrentDelivery ==
  \A p, q \in Pass :
    p # q /\ pc[p] = "deliver" /\ pc[q] = "deliver" => Current(p) # Current(q)

(* The outbox implements the delivery promise of EventDelivery: no event   *)
(* settles twice, none is consumed undelivered, and one is dead-lettered   *)
(* by its MaxAttempts-th recorded failure and by nothing else.             *)
ImplementsDelivery == Promise!Spec

(* Every published event is delivered or reaches the dead-letter view,     *)
(* whatever crashes, errors and overruns happen, as long as they stop.     *)
EveryEventSettles == \A e \in Event : e \in inserted ~> Settled(e)
=============================================================================
