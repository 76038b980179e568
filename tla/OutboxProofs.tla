---------------------------- MODULE OutboxProofs ----------------------------
(***************************************************************************)
(* Proofs about Outbox for any number of events, passes, tokens, batch     *)
(* size, attempts and faults.                                              *)
(***************************************************************************)
EXTENDS Outbox, WellFoundedInduction, FiniteSetTheorems, TLAPS

(* Every non-empty set of naturals has a least element.                    *)
LEMMA LeastExists ==
  ASSUME NEW S \in SUBSET Nat, S # {}
  PROVE  \E e \in S : \A d \in S : e <= d
<1>1. PICK e \in S : \A d \in S : ~ (<<d, e>> \in OpToRel(<, Nat))
  BY NatLessThanWellFounded, WFMin, Zenon
<1>2. \A c, d \in Nat : <<c, d>> \in OpToRel(<, Nat) <=> c < d
  BY DEF OpToRel
<1>3. \A d \in S : ~ (d < e)
  BY <1>1, <1>2, Zenon
<1> QED
  BY <1>3

(* A running pass has a token of its own and events left to process.       *)
PassInv ==
  /\ \A p \in Pass : pc[p] = "idle" => token[p] = NoClaim /\ batch[p] = {}
  /\ \A p \in Pass : pc[p] # "idle" =>
       /\ token[p] \in Token
       /\ batch[p] # {}
       /\ batch[p] \subseteq inserted
  /\ \A p, q \in Pass : token[p] = token[q] /\ token[p] # NoClaim => p = q

(* Only a row that is not settled is claimed.                              *)
RowInv ==
  /\ \A e \in Event : claim[e] # NoClaim =>
       /\ e \in inserted
       /\ e \notin consumed
       /\ attempts[e] < MaxAttempts
  /\ \A e \in Event : e \notin inserted => attempts[e] = 0
  /\ consumed \subseteq delivered
  /\ delivered \subseteq inserted

(* Rows locked by a claim in progress stay claimable, for that claim only. *)
LockInv ==
  /\ \A p \in Pass : pc[p] = "claiming" =>
       /\ \A e \in batch[p] : Claimable(e)
       /\ \A e \in Event : claim[e] # token[p]
  /\ \A p, q \in Pass : p # q /\ pc[p] = "claiming" /\ pc[q] = "claiming"
       => batch[p] \intersect batch[q] = {}

(* A pass at work owns the claims of its batch until they go stale, and    *)
(* owns no other.                                                          *)
OwnInv ==
  \A p \in Pass : pc[p] \in Working =>
    /\ \A e \in Event : claim[e] = token[p] => e \in batch[p]
    /\ \A e \in batch[p] : claim[e] = token[p] \/ token[p] \in stale

(* markConsumed is called for delivered events only.                       *)
MarkInv ==
  \A p \in Pass : pc[p] = "mark" =>
    \A e \in batch[p] : (\A d \in batch[p] : e <= d) => e \in delivered

IInv == TypeOK /\ PassInv /\ RowInv /\ LockInv /\ OwnInv /\ MarkInv
-----------------------------------------------------------------------------
(* A non-empty set of events has an earliest one.                          *)
LEMMA EarliestExists ==
  ASSUME NEW S \in SUBSET Event, S # {}
  PROVE  \E e \in S : \A d \in S : e <= d
<1>1. S \in SUBSET Nat
  BY OutboxAssumption DEF Event
<1> QED
  BY <1>1, LeastExists

(* A claim takes at least one row, and only rows that were selected.       *)
LEMMA EarliestNonEmpty ==
  ASSUME NEW S \in SUBSET Event, S # {}
  PROVE  /\ Earliest(BatchSize, S) # {}
         /\ Earliest(BatchSize, S) \subseteq S
<1>1. PICK e \in S : \A d \in S : e <= d
  BY EarliestExists
<1>2. {d \in S : d < e} = {}
  <2>1. \A d \in S : d \in Int /\ e \in Int /\ e <= d
    BY <1>1 DEF Event
  <2>2. \A d \in S : ~ (d < e)
    BY <2>1
  <2> QED
    BY <2>2
<1>3. Cardinality({d \in S : d < e}) < BatchSize
  BY <1>2, FS_EmptySet, OutboxAssumption
<1> QED
  BY <1>3 DEF Earliest

(* A pass with events left works on the earliest of them.                  *)
LEMMA CurrentInBatch ==
  ASSUME TypeOK, NEW p \in Pass, batch[p] # {}
  PROVE  /\ Current(p) \in batch[p]
         /\ Current(p) \in Event
         /\ \A d \in batch[p] : Current(p) <= d
<1>1. batch[p] \in SUBSET Event
  BY DEF TypeOK
<1>2. \E e \in batch[p] : \A d \in batch[p] : e <= d
  BY <1>1, EarliestExists
<1> QED
  BY <1>1, <1>2 DEF Current
-----------------------------------------------------------------------------
LEMMA InitInv == Init => IInv
BY OutboxAssumption
   DEF Init, IInv, TypeOK, PassInv, RowInv, LockInv, OwnInv, MarkInv, Working

LEMMA PublishKeepsInv ==
  ASSUME IInv, NEW e \in Event, PublishInTransaction(e)
  PROVE  IInv'
<1> USE DEF IInv, PublishInTransaction, pass
<1>1. TypeOK'
  BY DEF TypeOK
<1>2. PassInv'
  BY DEF PassInv
<1>3. RowInv'
  BY DEF RowInv
<1>4. LockInv'
  BY DEF LockInv, Claimable
<1>5. OwnInv'
  BY DEF OwnInv
<1>6. MarkInv'
  BY DEF MarkInv
<1> QED
  BY <1>1, <1>2, <1>3, <1>4, <1>5, <1>6

LEMMA ClaimSelectKeepsInv ==
  ASSUME IInv, NEW p \in Pass, ClaimSelect(p)
  PROVE  IInv'
<1> DEFINE chosen == Earliest(BatchSize, Selectable)
<1>1. PICK t \in Token : ~ InUse(t) /\ token' = [token EXCEPT ![p] = t] /\ stale' = stale \ {t}
  BY DEF ClaimSelect
<1>2. /\ pc[p] = "idle"
      /\ pc' = [pc EXCEPT ![p] = "claiming"]
      /\ batch' = [batch EXCEPT ![p] = chosen]
      /\ UNCHANGED <<inserted, claim, attempts, consumed, delivered, faults>>
  BY DEF ClaimSelect, row
<1>3. chosen # {} /\ chosen \subseteq Selectable
  BY EarliestNonEmpty DEF ClaimSelect, Selectable
<1>4. \A e \in chosen : e \in Event /\ Claimable(e) /\ e \notin RowLocks
  BY <1>3 DEF Selectable
<1>5. /\ \A e \in Event : claim[e] # t
      /\ \A q \in Pass : token[q] # t
  BY <1>1 DEF InUse
<1>6. t # NoClaim
  BY OutboxAssumption
<1> HIDE DEF chosen
<1>7. TypeOK'
  BY <1>1, <1>2, <1>4 DEF IInv, TypeOK
<1>8. PassInv'
  BY <1>1, <1>2, <1>3, <1>4, <1>5, <1>6 DEF IInv, TypeOK, PassInv, Claimable
<1>9. RowInv'
  BY <1>2 DEF IInv, RowInv
<1>10. \A e \in Event : Claimable(e) => Claimable(e)'
  BY <1>1, <1>2, <1>5 DEF Claimable
<1>11. LockInv'
  <2>1. \A q \in Pass : pc'[q] = "claiming" =>
          /\ \A e \in batch'[q] : Claimable(e)'
          /\ \A e \in Event : claim'[e] # token'[q]
    BY <1>1, <1>2, <1>4, <1>5, <1>10 DEF IInv, TypeOK, LockInv
  <2>2. \A q \in Pass : pc[q] = "claiming" => batch[q] \intersect chosen = {}
    BY <1>4 DEF RowLocks
  <2>3. \A q, r \in Pass : q # r /\ pc'[q] = "claiming" /\ pc'[r] = "claiming"
          => batch'[q] \intersect batch'[r] = {}
    BY <2>2, <1>2 DEF IInv, TypeOK, LockInv
  <2> QED
    BY <2>1, <2>3 DEF LockInv
<1>12. OwnInv'
  BY <1>1, <1>2, <1>5 DEF IInv, TypeOK, OwnInv, Working
<1>13. MarkInv'
  BY <1>2 DEF IInv, TypeOK, MarkInv
<1> QED
  BY <1>7, <1>8, <1>9, <1>11, <1>12, <1>13 DEF IInv

LEMMA ClaimCommitKeepsInv ==
  ASSUME IInv, NEW p \in Pass, ClaimCommit(p)
  PROVE  IInv'
<1>1. /\ pc[p] = "claiming"
      /\ pc' = [pc EXCEPT ![p] = "deliver"]
      /\ claim' = [e \in Event |-> IF e \in batch[p] THEN token[p] ELSE claim[e]]
      /\ UNCHANGED <<inserted, attempts, consumed, stale, token, batch, delivered, faults>>
  BY DEF ClaimCommit
<1>2. token[p] \in Token
  BY <1>1 DEF IInv, PassInv
<1>3. TypeOK'
  <2>1. claim' \in [Event -> Token \union {NoClaim}]
    BY <1>1, <1>2 DEF IInv, TypeOK
  <2>2. pc' \in [Pass -> {"idle", "claiming"} \union Working]
    BY <1>1 DEF IInv, TypeOK, Working
  <2> QED
    BY <1>1, <2>1, <2>2 DEF IInv, TypeOK
<1>4. PassInv'
  BY <1>1 DEF IInv, TypeOK, PassInv
<1>5. RowInv'
  BY <1>1 DEF IInv, TypeOK, LockInv, RowInv, Claimable
<1>6. LockInv'
  <2>1. \A q \in Pass : q # p /\ pc[q] = "claiming" =>
          /\ batch[q] \intersect batch[p] = {}
          /\ token[q] # token[p]
    BY <1>1, <1>2, OutboxAssumption DEF IInv, LockInv, PassInv
  <2>2. \A q \in Pass : pc'[q] = "claiming" => q # p /\ pc[q] = "claiming"
    BY <1>1 DEF IInv, TypeOK
  <2>3. \A q \in Pass : pc'[q] = "claiming" =>
          /\ \A e \in batch'[q] : Claimable(e)'
          /\ \A e \in Event : claim'[e] # token'[q]
    BY <1>1, <2>1, <2>2 DEF IInv, TypeOK, LockInv, Claimable
  <2> QED
    BY <1>1, <2>2, <2>3 DEF IInv, LockInv
<1>7. OwnInv'
  <2>1. \A q \in Pass : q # p /\ pc[q] \in Working => token[q] # token[p]
    BY <1>2, OutboxAssumption DEF IInv, PassInv, Working
  <2>2. \A e \in batch[p] : claim[e] = NoClaim \/ claim[e] \in stale
    BY <1>1 DEF IInv, LockInv, Claimable
  <2>3. \A q \in Pass : pc[q] \in Working => token[q] # NoClaim
    BY OutboxAssumption DEF IInv, PassInv, Working
  <2> QED
    BY <1>1, <2>1, <2>2, <2>3 DEF IInv, TypeOK, OwnInv, LockInv, Working
<1>8. MarkInv'
  BY <1>1 DEF IInv, TypeOK, MarkInv
<1> QED
  BY <1>3, <1>4, <1>5, <1>6, <1>7, <1>8 DEF IInv

(* Deliver, DeliverThrows, MarkConsumedThrows and one case of              *)
(* DatabaseError: the pass moves on within one event.                      *)
LEMMA MoveKeepsInv ==
  ASSUME IInv, NEW p \in Pass, pc[p] \in Working,
         NEW next \in Working, pc' = [pc EXCEPT ![p] = next],
         UNCHANGED <<inserted, claim, attempts, consumed, stale, token, batch>>,
         \/ delivered' = delivered /\ next # "mark"
         \/ delivered' = delivered \union {Current(p)},
         faults' \in 0..MaxFaults
  PROVE  IInv'
<1>1. /\ Current(p) \in batch[p]
      /\ Current(p) \in Event
      /\ Current(p) \in inserted
      /\ \A d \in batch[p] : Current(p) <= d
  BY CurrentInBatch DEF IInv, PassInv, Working
<1>2. TypeOK'
  BY <1>1 DEF IInv, TypeOK
<1>3. PassInv'
  BY DEF IInv, TypeOK, PassInv, Working
<1>4. RowInv'
  BY <1>1 DEF IInv, RowInv
<1>5. LockInv'
  BY DEF IInv, TypeOK, LockInv, Claimable, Working
<1>6. OwnInv'
  BY DEF IInv, TypeOK, OwnInv
<1>7. MarkInv'
  <2>1. \A e \in batch[p] : (\A d \in batch[p] : e <= d) => e = Current(p)
    BY <1>1 DEF IInv, TypeOK, Event
  <2> QED
    BY <2>1 DEF IInv, TypeOK, MarkInv
<1> QED
  BY <1>2, <1>3, <1>4, <1>5, <1>6, <1>7 DEF IInv

(* MarkFailedThrows, Crash and the other case of DatabaseError.            *)
LEMMA EndPassKeepsInv ==
  ASSUME IInv, NEW p \in Pass, EndPass(p),
         UNCHANGED <<inserted, claim, attempts, consumed, stale, delivered>>,
         faults' \in 0..MaxFaults
  PROVE  IInv'
<1> USE DEF EndPass, IInv, TypeOK
<1>1. TypeOK'
  OBVIOUS
<1>2. PassInv'
  BY DEF PassInv
<1>3. RowInv'
  BY DEF RowInv
<1>4. LockInv'
  BY DEF LockInv, Claimable
<1>5. OwnInv'
  BY DEF OwnInv, Working
<1>6. MarkInv'
  BY DEF MarkInv
<1> QED
  BY <1>1, <1>2, <1>3, <1>4, <1>5, <1>6

(* MarkConsumed and MarkFailed: the claim of the current event is cleared. *)
LEMMA SettleKeepsInv ==
  ASSUME IInv, NEW p \in Pass, pc[p] \in {"mark", "fail"},
         Current(p) \notin RowLocks, OwnsClaim(p, Current(p)), NextEvent(p),
         claim' = [claim EXCEPT ![Current(p)] = NoClaim],
         UNCHANGED <<inserted, stale, delivered, faults>>,
         \/ /\ pc[p] = "mark"
            /\ consumed' = consumed \union {Current(p)}
            /\ attempts' = attempts
         \/ /\ consumed' = consumed
            /\ attempts' = [attempts EXCEPT ![Current(p)] = @ + 1]
  PROVE  IInv'
<1> DEFINE c == Current(p)
<1>1. /\ token[p] \in Token
      /\ token[p] # NoClaim
      /\ batch[p] # {}
  BY OutboxAssumption DEF IInv, PassInv
<1>2. /\ c \in batch[p]
      /\ c \in Event
      /\ c \in inserted
      /\ \A d \in batch[p] : c <= d
  BY <1>1, CurrentInBatch DEF IInv, PassInv
<1>3. /\ claim[c] = token[p]
      /\ c \notin consumed
      /\ attempts[c] \in 0..MaxAttempts
      /\ attempts[c] < MaxAttempts
  BY <1>1, <1>2 DEF OwnsClaim, IInv, RowInv, TypeOK
<1>4. pc[p] = "mark" => c \in delivered
  BY <1>2 DEF IInv, MarkInv
<1>5. \/ pc' = [pc EXCEPT ![p] = "idle"] /\ token' = [token EXCEPT ![p] = NoClaim]
         /\ batch' = [batch EXCEPT ![p] = {}] /\ batch[p] = {c}
      \/ pc' = [pc EXCEPT ![p] = "deliver"] /\ token' = token
         /\ batch' = [batch EXCEPT ![p] = batch[p] \ {c}] /\ batch[p] # {c}
  BY DEF NextEvent, EndPass
<1>6. \A q \in Pass : pc[q] = "claiming" => c \notin batch[q]
  BY DEF RowLocks
<1>7. \A q \in Pass : q # p => token[q] # token[p]
  BY <1>1 DEF IInv, PassInv
<1>8. \A q \in Pass : q # p => pc'[q] = pc[q] /\ token'[q] = token[q] /\ batch'[q] = batch[q]
  BY <1>5 DEF IInv, TypeOK
<1> HIDE DEF c
<1>9. TypeOK'
  <2>1. attempts' \in [Event -> 0..MaxAttempts]
    BY <1>2, <1>3, OutboxAssumption DEF c, IInv, TypeOK
  <2>2. /\ consumed' \subseteq Event
        /\ claim' \in [Event -> Token \union {NoClaim}]
    BY <1>2 DEF c, IInv, TypeOK
  <2>3. /\ pc' \in [Pass -> {"idle", "claiming"} \union Working]
        /\ token' \in [Pass -> Token \union {NoClaim}]
        /\ batch' \in [Pass -> SUBSET Event]
    BY <1>5 DEF IInv, TypeOK, Working
  <2> QED
    BY <2>1, <2>2, <2>3 DEF IInv, TypeOK
<1>10. PassInv'
  BY <1>1, <1>2, <1>5, <1>7 DEF IInv, TypeOK, PassInv
<1>11. \A e \in Event : e # c =>
         claim'[e] = claim[e] /\ attempts'[e] = attempts[e] /\ (e \in consumed' <=> e \in consumed)
  BY <1>2 DEF c, IInv, TypeOK
<1>12. claim'[c] = NoClaim
  BY <1>2 DEF c, IInv, TypeOK
<1>13. RowInv'
  BY <1>2, <1>4, <1>11, <1>12 DEF c, IInv, RowInv
<1>14. LockInv'
  <2>1. \A q \in Pass : pc'[q] = "claiming" => q # p /\ pc[q] = "claiming"
    BY <1>5 DEF IInv, TypeOK
  <2>2. \A q \in Pass : pc'[q] = "claiming" =>
          /\ \A e \in batch'[q] : Claimable(e)'
          /\ \A e \in Event : claim'[e] # token'[q]
    <3> SUFFICES ASSUME NEW q \in Pass, pc'[q] = "claiming"
                 PROVE  /\ \A e \in batch'[q] : Claimable(e)'
                        /\ \A e \in Event : claim'[e] # token'[q]
      OBVIOUS
    <3>1. /\ \A e \in batch[q] : e # c /\ Claimable(e) /\ e \in Event
          /\ \A e \in Event : claim[e] # token[q]
          /\ token[q] # NoClaim
      BY <1>6, <2>1, OutboxAssumption DEF IInv, TypeOK, LockInv, PassInv
    <3> QED
      BY <3>1, <2>1, <1>8, <1>11, <1>12 DEF Claimable
  <2> QED
    BY <2>1, <2>2, <1>8 DEF IInv, LockInv
<1>15. OwnInv'
  <2> SUFFICES ASSUME NEW q \in Pass, pc'[q] \in Working
               PROVE  /\ \A e \in Event : claim'[e] = token'[q] => e \in batch'[q]
                      /\ \A e \in batch'[q] : claim'[e] = token'[q] \/ token'[q] \in stale'
    BY DEF OwnInv
  <2>1. CASE q = p
    <3>1. token'[p] = token[p] /\ batch'[p] = batch[p] \ {c}
      BY <2>1, <1>5 DEF IInv, TypeOK, Working
    <3> QED
      BY <2>1, <3>1, <1>1, <1>11, <1>12 DEF IInv, TypeOK, OwnInv, Working
  <2>2. CASE q # p
    <3>1. /\ pc[q] \in Working
          /\ token[q] # NoClaim
          /\ token[q] # claim[c]
      BY <2>2, <1>3, <1>7, <1>8, OutboxAssumption DEF IInv, PassInv, Working
    <3>2. c \in batch[q] => token[q] \in stale
      BY <3>1 DEF IInv, OwnInv
    <3> QED
      BY <2>2, <3>1, <3>2, <1>8, <1>11, <1>12 DEF IInv, TypeOK, OwnInv
  <2> QED
    BY <2>1, <2>2
<1>16. MarkInv'
  BY <1>5 DEF IInv, TypeOK, MarkInv
<1> QED
  BY <1>9, <1>10, <1>13, <1>14, <1>15, <1>16 DEF IInv

LEMMA ExpireKeepsInv ==
  ASSUME IInv, NEW t \in Token, stale' = stale \union {t},
         UNCHANGED <<inserted, claim, attempts, consumed, pc, token, batch, delivered>>,
         faults' \in 0..MaxFaults
  PROVE  IInv'
BY DEF IInv, TypeOK, PassInv, RowInv, LockInv, Claimable, OwnInv, MarkInv

LEMMA NextKeepsInv == IInv /\ [Next]_vars => IInv'
<1> SUFFICES ASSUME IInv, [Next]_vars
             PROVE  IInv'
  OBVIOUS
<1>f. faults \in 0..MaxFaults /\ (Fault => faults' \in 0..MaxFaults)
  BY OutboxAssumption DEF IInv, TypeOK, Fault
<1>1. ASSUME NEW e \in Event, PublishInTransaction(e)
      PROVE  IInv'
  BY <1>1, PublishKeepsInv
<1>2. ASSUME NEW p \in Pass, Tick(p)
      PROVE  IInv'
  <2>1. CASE ClaimSelect(p)
    BY <2>1, ClaimSelectKeepsInv
  <2>2. CASE ClaimCommit(p)
    BY <2>2, ClaimCommitKeepsInv
  <2>3. CASE Deliver(p)
    BY <2>3, <1>f, MoveKeepsInv DEF Deliver, row, Working
  <2>4. CASE DeliverThrows(p)
    BY <2>4, <1>f, MoveKeepsInv DEF DeliverThrows, row, Working
  <2>5. CASE MarkConsumed(p)
    BY <2>5, SettleKeepsInv DEF MarkConsumed
  <2>6. CASE MarkConsumedThrows(p)
    BY <2>6, <1>f, MoveKeepsInv DEF MarkConsumedThrows, row, Working
  <2>7. CASE MarkFailed(p)
    BY <2>7, SettleKeepsInv DEF MarkFailed
  <2>8. CASE MarkFailedThrows(p)
    BY <2>8, <1>f, EndPassKeepsInv DEF MarkFailedThrows, row
  <2> QED
    BY <1>2, <2>1, <2>2, <2>3, <2>4, <2>5, <2>6, <2>7, <2>8 DEF Tick
<1>3. ASSUME NEW p \in Pass, Crash(p)
      PROVE  IInv'
  BY <1>3, <1>f, EndPassKeepsInv DEF Crash, row
<1>4. ASSUME NEW p \in Pass, DatabaseError(p)
      PROVE  IInv'
  <2>1. Fault /\ UNCHANGED <<inserted, claim, attempts, consumed, stale, delivered>>
    BY <1>4 DEF DatabaseError, row
  <2>2. CASE pc[p] = "mark" /\ pc' = [pc EXCEPT ![p] = "fail"] /\ UNCHANGED <<token, batch>>
    BY <2>1, <2>2, <1>f, MoveKeepsInv DEF Working
  <2>3. CASE pc[p] = "fail" /\ EndPass(p)
    BY <2>1, <2>3, <1>f, EndPassKeepsInv
  <2> QED
    BY <1>4, <2>2, <2>3 DEF DatabaseError
<1>5. ASSUME NEW t \in Token, ExpireOrphan(t) \/ Overrun(t)
      PROVE  IInv'
  BY <1>5, <1>f, ExpireKeepsInv DEF ExpireOrphan, Overrun, row, pass
<1>6. CASE UNCHANGED vars
  BY <1>6 DEF vars, IInv, TypeOK, PassInv, RowInv, LockInv, Claimable, OwnInv, MarkInv
<1> QED
  BY <1>1, <1>2, <1>3, <1>4, <1>5, <1>6 DEF Next

(* The strengthened invariant holds of every execution.                    *)
THEOREM Invariance == Spec => []IInv
<1> QED
  BY InitInv, NextKeepsInv, PTL DEF Spec

(* Every variable of the outbox and of its relay keeps its type; attempts  *)
(* never exceed max_attempts.                                              *)
THEOREM TypeCorrect == Spec => []TypeOK
<1>1. IInv => TypeOK
  BY DEF IInv
<1> QED
  BY <1>1, Invariance, PTL

(* Two passes have an event in hand only after a claim went stale, for any *)
(* number of passes and events (claimBatch's row locks and claim tokens).  *)
THEOREM LiveOwnerUnique == Spec => []OneLiveOwner
<1>1. IInv => OneLiveOwner
  <2> SUFFICES ASSUME IInv, NEW p \in Pass, NEW q \in Pass, p # q,
                      pc[p] \in Working, pc[q] \in Working,
                      NEW e \in batch[p], e \in batch[q]
               PROVE  token[p] \in stale \/ token[q] \in stale
    BY DEF OneLiveOwner
  <2>1. token[p] # token[q]
    BY OutboxAssumption DEF IInv, PassInv, Working
  <2> QED
    BY <2>1 DEF IInv, OwnInv
<1> QED
  BY <1>1, Invariance, PTL

(* A row is marked consumed only after a delivery that did not throw.      *)
THEOREM ConsumedDelivered == Spec => []ConsumedWasDelivered
<1>1. IInv => ConsumedWasDelivered
  BY DEF IInv, RowInv, ConsumedWasDelivered
<1> QED
  BY <1>1, Invariance, PTL
-----------------------------------------------------------------------------
(* What a pass that settles its current event knows of the row.            *)
LEMMA OwnedRow ==
  ASSUME IInv, NEW p \in Pass, pc[p] \in Working, OwnsClaim(p, Current(p))
  PROVE  /\ Current(p) \in Event
         /\ Current(p) \in inserted
         /\ Current(p) \notin consumed
         /\ attempts[Current(p)] \in Nat
         /\ attempts[Current(p)] < MaxAttempts
         /\ pc[p] = "mark" => Current(p) \in delivered
<1>1. /\ Current(p) \in batch[p]
      /\ Current(p) \in Event
      /\ \A d \in batch[p] : Current(p) <= d
  BY CurrentInBatch DEF IInv, PassInv, Working
<1>2. claim[Current(p)] # NoClaim
  BY OutboxAssumption DEF IInv, PassInv, OwnsClaim, Working
<1> QED
  BY <1>1, <1>2 DEF IInv, RowInv, MarkInv, TypeOK

(* Once settled a row stays as it is: stale passes are fenced off by the   *)
(* claim token of markConsumed and markFailed.                             *)
THEOREM SettledFinal == Spec => SettledIsFinal
<1> DEFINE Final(e) == /\ e \in consumed' <=> e \in consumed
                       /\ attempts'[e] = attempts[e]
                       /\ claim'[e] = NoClaim
<1>1. ASSUME IInv, [Next]_vars
      PROVE  \A e \in Event : Settled(e) => Final(e)
  <2> SUFFICES ASSUME NEW e \in Event, Settled(e)
               PROVE  Final(e)
    OBVIOUS
  <2>1. claim[e] = NoClaim
    BY <1>1, OutboxAssumption DEF IInv, RowInv, TypeOK, Settled, DeadLettered
  <2>2. CASE UNCHANGED row
    BY <2>1, <2>2 DEF row
  <2>3. ASSUME NEW d \in Event, PublishInTransaction(d)
        PROVE  Final(e)
    BY <2>1, <2>3 DEF PublishInTransaction
  <2>4. ASSUME NEW p \in Pass, ClaimCommit(p)
        PROVE  Final(e)
    <3>1. e \notin batch[p]
      BY <1>1, <2>4, OutboxAssumption DEF ClaimCommit, IInv, LockInv, TypeOK, Claimable, Settled, DeadLettered
    <3> QED
      BY <2>1, <2>4, <3>1 DEF ClaimCommit
  <2>5. ASSUME NEW p \in Pass, MarkConsumed(p) \/ MarkFailed(p)
        PROVE  Final(e)
    <3>1. /\ Current(p) \in Event
          /\ Current(p) \notin consumed
          /\ attempts[Current(p)] \in Nat
          /\ attempts[Current(p)] < MaxAttempts
      BY <1>1, <2>5, OwnedRow DEF MarkConsumed, MarkFailed, Working
    <3>2. e # Current(p)
      BY <3>1, OutboxAssumption DEF Settled, DeadLettered
    <3>3. /\ claim' = [claim EXCEPT ![Current(p)] = NoClaim]
          /\ \/ consumed' = consumed \union {Current(p)} /\ attempts' = attempts
             \/ consumed' = consumed /\ attempts' = [attempts EXCEPT ![Current(p)] = @ + 1]
      BY <2>5 DEF MarkConsumed, MarkFailed
    <3> QED
      BY <1>1, <2>1, <3>2, <3>3 DEF IInv, TypeOK
  <2> QED
    BY <1>1, <2>2, <2>3, <2>4, <2>5
       DEF Next, Tick, ClaimSelect, Deliver, DeliverThrows, MarkConsumedThrows, MarkFailedThrows,
           Crash, DatabaseError, ExpireOrphan, Overrun, vars, row
<1>2. IInv /\ [Next]_vars => [\A e \in Event : Settled(e) => Final(e)]_vars
  BY <1>1
<1> QED
  BY <1>2, Invariance, PTL DEF Spec, SettledIsFinal
-----------------------------------------------------------------------------
LEMMA InitRefines == Init => Promise!Init
BY DEF Init, Status, Promise!Init

LEMMA StepRefines == IInv /\ [Next]_vars => [Promise!Next]_(Promise!vars)
<1> SUFFICES ASSUME IInv, [Next]_vars
             PROVE  Promise!Next \/ UNCHANGED Promise!vars
  OBVIOUS
<1> USE DEF Promise!Next, Promise!vars
<1>1. CASE UNCHANGED <<inserted, attempts, consumed, delivered>>
  BY <1>1 DEF Status, DeadLettered
<1>2. ASSUME NEW e \in Event, PublishInTransaction(e)
      PROVE  Promise!Publish(e)
  <2>1. attempts[e] = 0 /\ 0 < MaxAttempts /\ e \notin consumed
    BY <1>2, OutboxAssumption DEF IInv, RowInv, PublishInTransaction
  <2>2. Status[e] = "unpublished" /\ Status'[e] = "pending"
    BY <1>2, <2>1, OutboxAssumption DEF PublishInTransaction, Status, DeadLettered
  <2>3. \A d \in Event \ {e} : Status'[d] = Status[d]
    BY <1>2 DEF PublishInTransaction, Status, DeadLettered
  <2>4. Status' = [Status EXCEPT ![e] = "pending"]
    BY <2>2, <2>3 DEF Status
  <2> QED
    BY <1>2, <2>2, <2>4 DEF PublishInTransaction, Promise!Publish
<1>3. ASSUME NEW p \in Pass, Deliver(p)
      PROVE  Promise!Deliver(Current(p)) /\ Current(p) \in Event
  <2>1. Current(p) \in Event /\ Current(p) \in inserted
    BY <1>3, CurrentInBatch DEF IInv, PassInv, Deliver
  <2>2. Status[Current(p)] # "unpublished"
    BY <2>1 DEF Status
  <2>3. Status' = Status
    BY <1>3 DEF Deliver, row, Status, DeadLettered
  <2> QED
    BY <1>3, <2>1, <2>2, <2>3 DEF Deliver, row, Promise!Deliver
<1>4. ASSUME NEW p \in Pass, MarkConsumed(p)
      PROVE  Promise!Consume(Current(p)) /\ Current(p) \in Event
  <2> DEFINE c == Current(p)
  <2>1. /\ c \in Event /\ c \in inserted /\ c \notin consumed /\ c \in delivered
        /\ attempts[c] \in Nat /\ attempts[c] < MaxAttempts
    BY <1>4, OwnedRow DEF MarkConsumed, Working
  <2>2. consumed' = consumed \union {c} /\ UNCHANGED <<inserted, attempts, delivered>>
    BY <1>4 DEF MarkConsumed
  <2> HIDE DEF c
  <2>3. Status[c] = "pending" /\ Status'[c] = "consumed"
    BY <2>1, <2>2, OutboxAssumption DEF Status, DeadLettered
  <2>4. \A d \in Event \ {c} : Status'[d] = Status[d]
    BY <2>2 DEF Status, DeadLettered
  <2>5. Status' = [Status EXCEPT ![c] = "consumed"]
    BY <2>3, <2>4 DEF Status
  <2> QED
    BY <2>1, <2>2, <2>3, <2>5 DEF c, Promise!Consume
<1>5. ASSUME NEW p \in Pass, MarkFailed(p)
      PROVE  Promise!RecordFailure(Current(p)) /\ Current(p) \in Event
  <2> DEFINE c == Current(p)
             next == IF attempts[c] + 1 = MaxAttempts THEN "dead" ELSE "pending"
  <2>1. /\ c \in Event /\ c \in inserted /\ c \notin consumed
        /\ attempts[c] \in Nat /\ attempts[c] < MaxAttempts
    BY <1>5, OwnedRow DEF MarkFailed, Working
  <2>2. /\ attempts' = [attempts EXCEPT ![c] = @ + 1]
        /\ UNCHANGED <<inserted, consumed, delivered>>
    BY <1>5 DEF MarkFailed
  <2> HIDE DEF c
  <2>3. attempts'[c] = attempts[c] + 1 /\ \A d \in Event \ {c} : attempts'[d] = attempts[d]
    BY <2>1, <2>2 DEF IInv, TypeOK
  <2>4. Status[c] = "pending" /\ Status'[c] = next
    BY <2>1, <2>2, <2>3, OutboxAssumption DEF Status, DeadLettered
  <2>5. \A d \in Event \ {c} : Status'[d] = Status[d]
    BY <2>2, <2>3 DEF Status, DeadLettered
  <2>6. Status' = [Status EXCEPT ![c] = next]
    BY <2>4, <2>5 DEF Status
  <2> QED
    BY <2>1, <2>2, <2>4, <2>6 DEF c, Promise!RecordFailure
<1> QED
  BY <1>1, <1>2, <1>3, <1>4, <1>5
     DEF Next, Tick, ClaimSelect, ClaimCommit, DeliverThrows, MarkConsumedThrows, MarkFailedThrows,
         Crash, DatabaseError, ExpireOrphan, Overrun, vars, row

(* The outbox implements EventDelivery: at-least-once delivery, settled    *)
(* once, dead-lettered by exactly MaxAttempts recorded failures.           *)
THEOREM Refinement == Spec => ImplementsDelivery
<1> QED
  BY InitRefines, StepRefines, Invariance, PTL DEF Spec, ImplementsDelivery, Promise!Spec
=============================================================================
